---- MODULE Spec2Model ----
(***************************************************************************)
(* Model of the vaer tool server: the tool wrapper (request context, logs, *)
(* metrics), the proxy client and its error taxonomy, the data and         *)
(* composite tools, and the HTTP transport's POST /mcp handler.            *)
(*                                                                         *)
(* JavaScript objects are records that hold exactly the properties the     *)
(* object has: `'code' in error` is "code" \in DOMAIN error, and a         *)
(* property that is undefined is left out of the record.  An optional      *)
(* value is a sequence: <<>> for undefined, <<v>> for the value v.         *)
(* Each action is one run-to-completion continuation of the event loop:    *)
(* it runs from the event that resumes a call to the next await on I/O.    *)
(***************************************************************************)
EXTENDS Integers, Sequences, FiniteSets, TLC

VARIABLES
    config,         \* ServerConfig produced by loadConfig
    minLevel,       \* Logger.minLevel
    log,            \* entries written to stderr, in order
    toolCalls,      \* MetricsCollector.toolCalls: <<tool, outcome>> -> count
    latencies,      \* MetricsCollector.latencies: tool -> [sum, count]
    cacheStatuses,  \* MetricsCollector.cacheStatuses: status -> count
    store,          \* AsyncLocalStorage binding seen by each async chain
    nextUuid,       \* source of randomUUID values
    pc,             \* per call: "idle", "fetching", "reading", "done"
    req,            \* per call: the HTTP request (tool name, arguments, header)
    session,        \* per call: the per-request transport of POST /mcp
    requestId,      \* per call: wrapTool's requestId
    startTime,      \* per call: wrapTool's startTime
    fetchId,        \* per call: ProxyClient.fetch's own requestId
    timer,          \* per call: the setTimeout armed by ProxyClient.fetch
    wpIndex,        \* per call: position of the composite in its sampled waypoints
    subCalls,       \* per call: waypoints handed to handleMarineConditions so far
    assessments,    \* per call: waypointAssessments of handleAssessMarineTrip
    hotspots,       \* per call: allHotspots of handleAssessMarineTrip
    observed,       \* per call: contextRequestId values read by ProxyClient.fetch
    subResults,     \* per call: envelopes the sub-calls of a composite returned
    settled,        \* per call: the event that settled the last fetch, and its outcome
    result,         \* per call: the envelope the wrapped handler resolved with
    thrown,         \* per call: the exception the wrapped handler rejected with
    callerSaw,      \* per call: getRequestId() in the caller once the call settled
    proc,           \* the Node process: running or exited, stdin transport, signals taken
    calc            \* a function of the code applied on its own: name, input, output

serverVars == <<config, proc, minLevel, log, toolCalls, latencies, cacheStatuses, store,
                nextUuid, pc, req, session, requestId, startTime, fetchId, timer,
                wpIndex, subCalls, assessments, hotspots, observed, subResults,
                settled, result, thrown, callerSaw>>

vars == <<serverVars, calc>>

(***************************************************************************)
(* Bounds of the model.                                                    *)
(***************************************************************************)
MaxCalls == 2
MaxClock == 1
MaxRoute == 2

Calls == 1..MaxCalls
Outside == 0
Chains == Calls \cup {Outside}

None == <<>>
Some(v) == <<v>>

\* obj with property k set to v
\* calc while no function is applied on its own
Idle == [fn |-> "none"]

With(obj, k, v) == [x \in DOMAIN obj \cup {k} |-> IF x = k THEN v ELSE obj[x]]

(***************************************************************************)
(* Strings that the code parses are sequences of one-character strings.    *)
(***************************************************************************)
Digits == <<"0", "1", "2", "3", "4", "5", "6", "7", "8", "9">>
LowerCase == <<"a", "b", "c", "d", "e", "h", "i", "m", "p", "r", "s", "t", "x", "y">>
UpperCase == <<"A", "B", "C", "D", "E", "H", "I", "M", "P", "R", "S", "T", "X", "Y">>

IsDigit(ch) == \E i \in DOMAIN Digits : Digits[i] = ch
DigitVal(ch) == (CHOOSE i \in DOMAIN Digits : Digits[i] = ch) - 1

RECURSIVE DigitPrefix(_)
DigitPrefix(s) ==
    IF s = <<>> \/ ~IsDigit(Head(s)) THEN <<>>
    ELSE <<Head(s)>> \o DigitPrefix(Tail(s))

RECURSIVE DigitsValue(_, _)
DigitsValue(s, acc) ==
    IF s = <<>> THEN acc ELSE DigitsValue(Tail(s), 10 * acc + DigitVal(Head(s)))

RECURSIVE TrimLeft(_)
TrimLeft(s) == IF s # <<>> /\ Head(s) = " " THEN TrimLeft(Tail(s)) ELSE s

\* parseInt(s, 10): leading blanks, an optional sign, the longest digit
\* prefix; NaN (None) when there is no digit
parseInt(str) ==
    LET s == TrimLeft(str)
        neg == s # <<>> /\ Head(s) = "-"
        rest == IF s # <<>> /\ Head(s) \in {"-", "+"} THEN Tail(s) ELSE s
        ds == DigitPrefix(rest)
    IN  IF ds = <<>> THEN None
        ELSE Some(IF neg THEN 0 - DigitsValue(ds, 0) ELSE DigitsValue(ds, 0))

toUpperCase(s) ==
    [i \in DOMAIN s |->
        IF \E k \in DOMAIN LowerCase : LowerCase[k] = s[i]
        THEN UpperCase[CHOOSE k \in DOMAIN LowerCase : LowerCase[k] = s[i]]
        ELSE s[i]]

\* Headers.get: the value, or null (None) when the header is absent
HeadersGet(headers, name) ==
    IF name \in DOMAIN headers THEN Some(headers[name]) ELSE None

\* truthiness of a string-or-null: null and "" are falsy
Truthy(opt) == opt # None /\ opt[1] # <<>>

(***************************************************************************)
(* Error taxonomy (error-handler).                                         *)
(***************************************************************************)
ErrorCodes == {"INVALID_INPUT", "OUT_OF_COVERAGE", "RATE_LIMITED",
               "MET_API_UNAVAILABLE", "INTERNAL_ERROR"}

\* a map that takes 503 for an outage
mapHttpStatusToErrorCode_outage(status) ==
    IF status = 400 \/ status = 404 THEN "INVALID_INPUT"
    ELSE IF status = 403 THEN "INTERNAL_ERROR"
    ELSE IF status = 429 THEN "RATE_LIMITED"
    ELSE IF status >= 500 THEN "MET_API_UNAVAILABLE"
    ELSE "INTERNAL_ERROR"

mapHttpStatusToErrorCode(status) ==
    IF status = 400 \/ status = 404 THEN "INVALID_INPUT"
    ELSE IF status = 403 THEN "INTERNAL_ERROR"
    ELSE IF status = 429 \/ status = 503 THEN "RATE_LIMITED"
    ELSE IF status >= 500 THEN "MET_API_UNAVAILABLE"
    ELSE "INTERNAL_ERROR"

createWeatherError(code, message, details) ==
    [code |-> code, message |-> message,
     retryable |-> (code = "RATE_LIMITED" \/ code = "MET_API_UNAVAILABLE"),
     details |-> details]

\* headers: the response headers, a record holding the headers present
handleHttpError(status, statusText, headers, rid) ==
    LET code == mapHttpStatusToErrorCode(status)
        message ==
            CASE code = "INVALID_INPUT" -> <<"Invalid input parameters: ", statusText>>
              [] code = "RATE_LIMITED" -> <<"Rate limit exceeded. Please try again later.">>
              [] code = "MET_API_UNAVAILABLE" -> <<"MET Weather API is currently unavailable.">>
              [] code = "INTERNAL_ERROR" ->
                    IF status = 403
                    THEN <<"Configuration error: User-Agent or Terms of Service issue.">>
                    ELSE <<"An internal error occurred.">>
        d0 == [upstreamStatus |-> status]
        d1 == IF rid # None THEN With(d0, "requestId", rid[1]) ELSE d0
        retryAfter == HeadersGet(headers, "Retry-After")
        d2 == IF code = "RATE_LIMITED" /\ Truthy(retryAfter)
                 /\ parseInt(retryAfter[1]) # None
              THEN With(d1, "retryAfterSeconds", parseInt(retryAfter[1])[1])
              ELSE d1
    IN  createWeatherError(code, message, d2)

handleNetworkError(error, rid) ==
    createWeatherError(
        "MET_API_UNAVAILABLE",
        <<"Unable to reach MET Weather API. Please try again later.">>,
        IF rid # None
        THEN [requestId |-> rid[1], networkError |-> error.message]
        ELSE [networkError |-> error.message])

createOutOfCoverageError(message, location) ==
    createWeatherError("OUT_OF_COVERAGE", message, [location |-> location])

(***************************************************************************)
(* Cache headers and coverage fences.  Coordinates are in tenths of a      *)
(* degree, so that 60.5 is 605.                                            *)
(***************************************************************************)
CacheStatusValues == {<<"H", "I", "T">>, <<"M", "I", "S", "S">>,
                      <<"E", "X", "P", "I", "R", "E", "D">>,
                      <<"B", "Y", "P", "A", "S", "S">>}

\* a parser that compares the header value as it was sent
parseCacheHeaders_sensitive(headers) ==
    LET proxyCacheHeader == HeadersGet(headers, "X-Proxy-Cache")
        ageHeader == HeadersGet(headers, "Age")
        value == IF Truthy(proxyCacheHeader) THEN proxyCacheHeader[1] ELSE <<>>
        cached == Truthy(proxyCacheHeader)
                  /\ (value = <<"H", "I", "T">> \/ value = <<"E", "X", "P", "I", "R", "E", "D">>)
        c0 == [cached |-> cached]
        c1 == IF Truthy(proxyCacheHeader) /\ value \in CacheStatusValues
              THEN With(c0, "status", value) ELSE c0
        parsed == IF Truthy(ageHeader) THEN parseInt(ageHeader[1]) ELSE None
    IN  IF parsed # None /\ parsed[1] >= 0 THEN With(c1, "ageSeconds", parsed[1]) ELSE c1

parseCacheHeaders(headers) ==
    LET proxyCacheHeader == HeadersGet(headers, "X-Proxy-Cache")
        ageHeader == HeadersGet(headers, "Age")
        value == IF Truthy(proxyCacheHeader) THEN toUpperCase(proxyCacheHeader[1]) ELSE <<>>
        cached == Truthy(proxyCacheHeader)
                  /\ (value = <<"H", "I", "T">> \/ value = <<"E", "X", "P", "I", "R", "E", "D">>)
        c0 == [cached |-> cached]
        c1 == IF Truthy(proxyCacheHeader) /\ value \in CacheStatusValues
              THEN With(c0, "status", value) ELSE c0
        parsed == IF Truthy(ageHeader) THEN parseInt(ageHeader[1]) ELSE None
    IN  IF parsed # None /\ parsed[1] >= 0 THEN With(c1, "ageSeconds", parsed[1]) ELSE c1

\* a fence whose southern bound is exclusive
isNordic_exclusive(lat, lon) == lat > 550 /\ lat <= 720 /\ lon >= 40 /\ lon <= 320

isNordic(lat, lon) == lat >= 550 /\ lat <= 720 /\ lon >= 40 /\ lon <= 320

isNorway(lat, lon) == lat >= 580 /\ lat <= 710 /\ lon >= 40 /\ lon <= 310

isCoastalNorway(lat, lon) ==
    LET isOsloFjord == lat >= 590 /\ lat <= 605 /\ lon >= 100 /\ lon <= 115
        isWesternCoast == lat >= 580 /\ lat <= 630 /\ lon >= 45 /\ lon <= 80
    IN  isOsloFjord \/ isWesternCoast

(***************************************************************************)
(* Attribution and the response builder.                                   *)
(***************************************************************************)
buildSourceMetadata(product, cache) ==
    LET m == [provider |-> "MET Norway", product |-> product,
              licenseUri |-> "https://api.met.no/doc/License",
              creditLine |-> "Data from MET Norway Weather API (https://api.met.no/)",
              cached |-> cache.cached]
    IN  IF "ageSeconds" \in DOMAIN cache THEN With(m, "ageSeconds", cache.ageSeconds) ELSE m

buildToolResponse(structuredContent, textSummary) ==
    [content |-> <<[type |-> "text", text |-> textSummary]>>,
     structuredContent |-> structuredContent]

\* error.details?.retryAfterSeconds is truthy: present and not 0
HasRetryAfter(error) ==
    /\ "details" \in DOMAIN error
    /\ "retryAfterSeconds" \in DOMAIN error.details
    /\ error.details.retryAfterSeconds # 0

buildErrorResponse(error) ==
    LET textSummary ==
            IF HasRetryAfter(error)
            THEN error.message \o <<" Retry after ", ToString(error.details.retryAfterSeconds), " seconds.">>
            ELSE error.message
    IN  [content |-> <<[type |-> "text", text |-> textSummary]>>,
         structuredContent |-> [error |-> error],
         isError |-> TRUE]

\* result.isError is truthy
IsErrorEnvelope(r) == "isError" \in DOMAIN r /\ r.isError

(***************************************************************************)
(* Logger.                                                                 *)
(***************************************************************************)
levelPriority(level) ==
    CASE level = "debug" -> 0
      [] level = "info" -> 1
      [] level = "warn" -> 2
      [] level = "error" -> 3

\* a bug that drops the entries of the minimum level itself
shouldLog_strict(min, level) == levelPriority(level) > levelPriority(min)

shouldLog(min, level) == levelPriority(level) >= levelPriority(min)

\* Logger.write: the stream after the entry is (or is not) written
write(min, stream, level, message, context) ==
    IF ~shouldLog(min, level) THEN stream
    ELSE Append(stream, [level |-> level, message |-> message, context |-> context])

logToolStart(min, stream, toolName, rid) ==
    write(min, stream, "info", <<"Tool call started">>,
          [requestId |-> rid, toolName |-> toolName])

\* errorCode is optional: None when the wrapper found none
logToolEnd(min, stream, toolName, latencyMs, outcome, rid, errorCode) ==
    LET ctx == [requestId |-> rid, toolName |-> toolName,
                latencyMs |-> latencyMs, outcome |-> outcome]
    IN  write(min, stream, "info", <<"Tool call completed">>,
              IF errorCode # None THEN With(ctx, "errorCode", errorCode[1]) ELSE ctx)

logError(min, stream, error, rid, toolName) ==
    write(min, stream, "error", error.message,
          [requestId |-> rid, toolName |-> toolName, context |-> "tool_wrapper",
           errorName |-> error.name])

\* cacheStatus and rid are optional values
logUpstreamCall(min, stream, upstreamStatus, cacheStatus, rid) ==
    write(min, stream, "debug", <<"Upstream API call">>,
          [requestId |-> rid, upstreamStatus |-> upstreamStatus,
           cacheStatus |-> cacheStatus])

(***************************************************************************)
(* Metrics collector.  A key that the Map does not hold counts 0.          *)
(***************************************************************************)
\* a collector that loses the increment
incrementToolCall_dropped(m, toolName, outcome) == m

incrementToolCall(m, toolName, outcome) ==
    [m EXCEPT ![<<toolName, outcome>>] = @ + 1]

\* a collector that adds the latency to the sum and does not count the sample
recordLatency_uncounted(m, toolName, latencyMs) ==
    [m EXCEPT ![toolName] = [sum |-> @.sum + latencyMs, count |-> @.count]]

recordLatency(m, toolName, latencyMs) ==
    [m EXCEPT ![toolName] = [sum |-> @.sum + latencyMs, count |-> @.count + 1]]

incrementCacheStatus(m, status) == [m EXCEPT ![status] = @ + 1]

\* exportPrometheus: the samples of the text, one per key the Maps hold (a
\* key is in a Map once it was counted); the average in hundredths
exportPrometheus(tc, lat, cs) ==
    {<<"mcp_tool_calls_total", <<k[1], k[2]>>, tc[k]>> : k \in {j \in DOMAIN tc : tc[j] > 0}}
    \cup {<<"mcp_tool_latency_ms_avg", <<t>>, (200 * lat[t].sum + lat[t].count) \div (2 * lat[t].count)>> :
            t \in {u \in DOMAIN lat : lat[u].count > 0}}
    \cup {<<"mcp_tool_latency_ms_count", <<t>>, lat[t].count>> :
            t \in {u \in DOMAIN lat : lat[u].count > 0}}
    \cup {<<"met_proxy_cache_status_total", <<st>>, cs[st]>> : st \in {u \in DOMAIN cs : cs[u] > 0}}

(***************************************************************************)
(* Request context (AsyncLocalStorage).  run binds the context for the     *)
(* async chain that fn starts and for nothing else.                        *)
(***************************************************************************)
\* a bug that keeps the context in one process-wide variable
runWithContext_global(st, chain, context) == [ch \in DOMAIN st |-> Some(context)]

runWithContext(st, chain, context) == [st EXCEPT ![chain] = Some(context)]

getContext(st, chain) == st[chain]

getRequestId(st, chain) ==
    IF getContext(st, chain) = None THEN None
    ELSE Some(getContext(st, chain)[1].requestId)

(***************************************************************************)
(* Exceptions.  A raw exception is the record of the properties the thrown *)
(* object has; a thrown primitive has the single property "primitive".     *)
(***************************************************************************)
\* what fetch rejects with on a network failure, and what is thrown for a
\* value that is no Error
RawNetworkErrors == {
    [name |-> "TypeError", message |-> <<"fetch failed">>],
    [primitive |-> <<"string error">>]}

\* what fetch rejects with when its signal aborts: the platform's
\* DOMException, which has the legacy numeric code (ABORT_ERR), or a plain
\* Error named AbortError as the unit tests build it
AbortRejections == {
    [name |-> "AbortError", message |-> <<"This operation was aborted">>, code |-> "ABORT_ERR"],
    [name |-> "AbortError", message |-> <<"The operation was aborted">>]}

\* response.json() on a body that is no JSON
JsonSyntaxError == [name |-> "SyntaxError", message |-> <<"Unexpected token">>]

\* reading a property of undefined in a tool body
ShapeTypeError == [name |-> "TypeError", message |-> <<"Cannot read properties of undefined">>]

\* Schema.parse(args) on arguments that violate the schema
ZodError == [name |-> "ZodError", message |-> <<"schema violation">>]

\* typeof error === 'object'
IsObject(error) == "primitive" \notin DOMAIN error

\* error instanceof Error
InstanceOfError(error) == "name" \in DOMAIN error

\* error instanceof Error ? error.message : String(error)
ErrorText(error) == IF InstanceOfError(error) THEN error.message ELSE error.primitive

\* the test the catch blocks use for "already a WeatherError"
LooksLikeWeatherError(error) ==
    IsObject(error) /\ "code" \in DOMAIN error /\ "message" \in DOMAIN error

(***************************************************************************)
(* ProxyClient.fetch.                                                      *)
(***************************************************************************)
DefaultTimeoutMs == 5000

\* the catch block: what fetch rejects with, given what was caught
FetchCatch(error, timeout, rid) ==
    IF LooksLikeWeatherError(error) THEN error
    ELSE IF InstanceOfError(error)
         THEN IF error.name = "AbortError"
              THEN handleNetworkError(
                       [message |-> <<"Request timeout after ", ToString(timeout), "ms">>], rid)
              ELSE handleNetworkError(error, rid)
    ELSE handleNetworkError([message |-> <<"Unknown error occurred">>], rid)

\* An upstream event that settles the fetch in flight.
\*   [kind |-> "response", status, statusText, headers, body]
\*   [kind |-> "reject", error]
\* body is <<>> when it is no JSON, else <<data>>.
\* The outcome is [ok |-> TRUE, response |-> ...] or [ok |-> FALSE, error |-> ...].
FetchSettle(ev, timeout, rid) ==
    IF ev.kind = "reject"
    THEN [ok |-> FALSE, error |-> FetchCatch(ev.error, timeout, rid)]
    ELSE IF ~(ev.status >= 200 /\ ev.status <= 299)
    THEN [ok |-> FALSE,
          error |-> FetchCatch(handleHttpError(ev.status, ev.statusText, ev.headers, rid),
                               timeout, rid)]
    ELSE IF ev.body = None
    THEN [ok |-> FALSE, error |-> FetchCatch(JsonSyntaxError, timeout, rid)]
    ELSE [ok |-> TRUE,
          response |-> [data |-> ev.body[1], status |-> ev.status,
                        cache |-> parseCacheHeaders(ev.headers)]]

(***************************************************************************)
(* Data tools: the part of the handler that runs once fetch has settled.   *)
(***************************************************************************)
\* the catch block of every tool handler
ToolCatch(error, unexpected) ==
    IF LooksLikeWeatherError(error) THEN buildErrorResponse(error)
    ELSE buildErrorResponse(createWeatherError("INTERNAL_ERROR", <<unexpected>>,
                                               [error |-> ErrorText(error)]))

\* thresholds in tenths: RISK_THRESHOLDS[vesselType][row]
RISK_THRESHOLDS(vesselType) ==
    CASE vesselType = "kayak" ->
            [low |-> [wave |-> 3, current |-> 5], moderate |-> [wave |-> 5, current |-> 10],
             high |-> [wave |-> 8, current |-> 15]]
      [] vesselType = "small_sailboat" ->
            [low |-> [wave |-> 5, current |-> 10], moderate |-> [wave |-> 10, current |-> 20],
             high |-> [wave |-> 15, current |-> 30]]
      [] vesselType = "motorboat" ->
            [low |-> [wave |-> 8, current |-> 15], moderate |-> [wave |-> 15, current |-> 25],
             high |-> [wave |-> 20, current |-> 40]]
      [] vesselType = "ship" ->
            [low |-> [wave |-> 20, current |-> 30], moderate |-> [wave |-> 35, current |-> 50],
             high |-> [wave |-> 50, current |-> 70]]

\* a classifier whose bounds are exclusive
assessRiskLevel_exclusive(waveHeight, waterSpeed, vesselType) ==
    LET thresholds == RISK_THRESHOLDS(vesselType)
    IN  IF waveHeight > thresholds.high.wave \/ waterSpeed > thresholds.high.current
        THEN "high"
        ELSE IF waveHeight > thresholds.moderate.wave
                \/ waterSpeed > thresholds.moderate.current
        THEN "moderate"
        ELSE "low"

\* a classifier with a fourth level above the high thresholds
assessRiskLevel_extreme(waveHeight, waterSpeed, vesselType) ==
    LET thresholds == RISK_THRESHOLDS(vesselType)
    IN  IF waveHeight > thresholds.high.wave \/ waterSpeed > thresholds.high.current
        THEN "extreme"
        ELSE IF waveHeight >= thresholds.high.wave \/ waterSpeed >= thresholds.high.current
        THEN "high"
        ELSE IF waveHeight >= thresholds.moderate.wave
                \/ waterSpeed >= thresholds.moderate.current
        THEN "moderate"
        ELSE "low"

\* waveHeight and waterSpeed in tenths
assessRiskLevel(waveHeight, waterSpeed, vesselType) ==
    LET thresholds == RISK_THRESHOLDS(vesselType)
    IN  IF waveHeight >= thresholds.high.wave \/ waterSpeed >= thresholds.high.current
        THEN "high"
        ELSE IF waveHeight >= thresholds.moderate.wave
                \/ waterSpeed >= thresholds.moderate.current
        THEN "moderate"
        ELSE "low"

\* transformMetResponse of the marine tool, for a series inside the window
MarineTransform(timeseries, vesselType) ==
    [i \in DOMAIN timeseries |->
        [time |-> timeseries[i].time,
         wave_height |-> timeseries[i].wave,
         water_speed |-> timeseries[i].current,
         risk_level |-> assessRiskLevel(timeseries[i].wave, timeseries[i].current,
                                        vesselType)]]

\* handleMarineConditions after fetch settled with `outcome`
MarineFinish(input, outcome) ==
    LET unexpected == "An unexpected error occurred while fetching marine conditions."
    IN  IF ~outcome.ok THEN ToolCatch(outcome.error, unexpected)
        ELSE IF "timeseries" \notin DOMAIN outcome.response.data
        THEN ToolCatch(ShapeTypeError, unexpected)
        ELSE buildToolResponse(
                 [source |-> buildSourceMetadata("Oceanforecast 2.0", outcome.response.cache),
                  location |-> input.location,
                  vesselType |-> input.vesselType,
                  hours |-> MarineTransform(outcome.response.data.timeseries,
                                            input.vesselType)],
                 <<"Marine conditions">>)

\* handleMarineConditions before any upstream request: the coverage gate
MarineCoverageError(location) ==
    buildErrorResponse(createOutOfCoverageError(
        <<"Marine conditions are only available for coastal Norway (Oslo Fjord 59-60.5N, 10-11.5E and Western Coast 58-63N, 4.5-8E).">>,
        location))

\* handleLocationForecast after fetch settled with `outcome`
ForecastFinish(input, outcome) ==
    LET unexpected == "An unexpected error occurred while fetching forecast data."
    IN  IF ~outcome.ok THEN ToolCatch(outcome.error, unexpected)
        ELSE IF "timeseries" \notin DOMAIN outcome.response.data
        THEN ToolCatch(ShapeTypeError, unexpected)
        ELSE buildToolResponse(
                 [source |-> buildSourceMetadata("Locationforecast 2.0",
                                                 outcome.response.cache),
                  location |-> input.location,
                  hours |-> outcome.response.data.timeseries],
                 <<"Forecast">>)

\* a bug that aggregates whatever the sub-call returned
SubCallFailed_never(subResult) == FALSE

\* marineResult.isError, forecastResult.isError: the sub-call failed and the
\* composite returns what the sub-call returned
SubCallFailed(subResult) == IsErrorEnvelope(subResult)

(***************************************************************************)
(* Route-risk aggregator (handleAssessMarineTrip).                         *)
(***************************************************************************)
MaxSamples == 5

riskToNumeric(risk) ==
    CASE risk = "low" -> 0
      [] risk = "moderate" -> 1
      [] risk = "high" -> 2
      [] risk = "extreme" -> 3

\* a sampling that truncates i * step
SampleIndex_truncated(i, n, maxSamples) == (i * (n - 1)) \div (maxSamples - 1)

\* Math.round(i * step) with step = (n - 1) / (maxSamples - 1)
SampleIndex(i, n, maxSamples) ==
    (2 * i * (n - 1) + (maxSamples - 1)) \div (2 * (maxSamples - 1))

\* the sampled waypoints; route positions are 1-based here, 0-based in the code
sampleWaypoints(route, maxSamples) ==
    IF Len(route) <= maxSamples THEN route
    ELSE <<route[1]>>
         \o [i \in 1..(maxSamples - 2) |-> route[SampleIndex(i, Len(route), maxSamples) + 1]]
         \o <<route[Len(route)]>>

RECURSIVE MaxRiskOf(_, _)
\* the loop that keeps the first hour of the highest risk seen
MaxRiskOf(hours, maxRisk) ==
    IF hours = <<>> THEN maxRisk
    ELSE MaxRiskOf(Tail(hours),
                   IF riskToNumeric(Head(hours).risk_level) > riskToNumeric(maxRisk)
                   THEN Head(hours).risk_level ELSE maxRisk)

\* the assessment pushed for one waypoint whose marine sub-call succeeded
WaypointAssessment(waypoint, hours) ==
    [waypoint |-> waypoint,
     max_risk |-> MaxRiskOf(hours, "low"),
     hours_assessed |-> Len(hours),
     high_risk_hours |-> Cardinality({i \in DOMAIN hours :
                                         riskToNumeric(hours[i].risk_level) >= 2})]

\* the hotspots pushed for one waypoint, in hour order
WaypointHotspots(waypoint, hours) ==
    SelectSeq([i \in DOMAIN hours |->
                  [location |-> waypoint, time |-> hours[i].time,
                   risk_level |-> hours[i].risk_level,
                   wave_height |-> hours[i].wave_height,
                   water_speed |-> hours[i].water_speed]],
              LAMBDA h : riskToNumeric(h.risk_level) >= 2)

\* a roll-up that calls a trip dangerous on a single high waypoint
aggregateTripRisk_anyHigh(waypointAssessments) ==
    LET nums == {riskToNumeric(waypointAssessments[i].max_risk) :
                    i \in DOMAIN waypointAssessments}
        maxRisk == CHOOSE m \in nums : \A k \in nums : k <= m
    IN  IF maxRisk >= 3 THEN "extreme"
        ELSE IF maxRisk >= 2 THEN "dangerous"
        ELSE IF maxRisk >= 1 THEN "caution"
        ELSE "safe"

aggregateTripRisk(waypointAssessments) ==
    LET nums == {riskToNumeric(waypointAssessments[i].max_risk) :
                    i \in DOMAIN waypointAssessments}
        maxRisk == CHOOSE m \in nums : \A k \in nums : k <= m
        highRiskWaypoints ==
            Cardinality({i \in DOMAIN waypointAssessments :
                            riskToNumeric(waypointAssessments[i].max_risk) >= 2})
    IN  IF maxRisk >= 3 THEN "extreme"
        ELSE IF maxRisk >= 2
             THEN IF highRiskWaypoints >= 2 THEN "dangerous" ELSE "caution"
        ELSE IF maxRisk >= 1 THEN "caution"
        ELSE "safe"

\* Array.prototype.sort by descending risk; the sort is stable
SortHotspots(hs) ==
    SelectSeq(hs, LAMBDA h : riskToNumeric(h.risk_level) = 3)
    \o SelectSeq(hs, LAMBDA h : riskToNumeric(h.risk_level) = 2)
    \o SelectSeq(hs, LAMBDA h : riskToNumeric(h.risk_level) < 2)

\* the success envelope built after the last waypoint
TripFinish(input, waypointAssessments, allHotspots) ==
    buildToolResponse(
        [route |-> input.route,
         vesselType |-> input.vesselType,
         overall_risk |-> aggregateTripRisk(waypointAssessments),
         waypoint_assessments |-> waypointAssessments,
         hotspots |-> SortHotspots(allHotspots)],
        <<"Marine trip risk assessment">>)

(***************************************************************************)
(* Activity-window scorer (handleAssessOutdoorActivity).  Temperature and  *)
(* wind in whole units, precipitation in tenths of mm/h.                   *)
(***************************************************************************)
ACTIVITY_THRESHOLDS(activity) ==
    CASE activity = "running" ->
            [minTemp |-> 5, maxTemp |-> 20, maxWind |-> 10, avoidHeavyRain |-> TRUE]
      [] activity = "cycling" ->
            [minTemp |-> 8, maxTemp |-> 25, maxWind |-> 12, avoidHeavyRain |-> TRUE]
      [] activity = "hiking" ->
            [minTemp |-> 5, maxTemp |-> 25, maxWind |-> 15, avoidHeavyRain |-> FALSE]
      [] activity = "kids_playground" ->
            [minTemp |-> 10, maxTemp |-> 28, maxWind |-> 8, avoidHeavyRain |-> TRUE]
      [] activity = "commuting" ->
            [minTemp |-> 0 - 10, maxTemp |-> 35, maxWind |-> 20, avoidHeavyRain |-> FALSE]

assessComfort(temperature, windSpeed, precipitationRate, thresholds, avoidAllRain) ==
    LET temperature_ok == temperature >= thresholds.minTemp
                          /\ temperature <= thresholds.maxTemp
        wind_ok == windSpeed <= thresholds.maxWind
        precipitation_ok ==
            IF avoidAllRain THEN precipitationRate = 0
            ELSE IF thresholds.avoidHeavyRain THEN precipitationRate < 25
            ELSE TRUE
        issueCount == Cardinality({k \in {1, 2, 3} :
                          ~(<<temperature_ok, wind_ok, precipitation_ok>>[k])})
    IN  [score |-> IF issueCount = 0 THEN "good" ELSE IF issueCount = 1 THEN "ok" ELSE "poor",
         temperature_ok |-> temperature_ok,
         wind_ok |-> wind_ok,
         precipitation_ok |-> precipitation_ok]

\* hour.precipitation_rate ?? 0
PrecipitationOf(hour) ==
    IF "precipitation_rate" \in DOMAIN hour THEN hour.precipitation_rate ELSE 0

ComfortSlots(hours, thresholds, avoidAllRain) ==
    [i \in DOMAIN hours |->
        LET a == assessComfort(hours[i].air_temperature, hours[i].wind_speed,
                               PrecipitationOf(hours[i]), thresholds, avoidAllRain)
        IN  [time |-> hours[i].time, score |-> a.score,
             temperature_ok |-> a.temperature_ok, wind_ok |-> a.wind_ok,
             precipitation_ok |-> a.precipitation_ok]]

RECURSIVE BestWindowsFrom(_, _, _, _)
\* the loop of identifyBestWindows from slot i on; currentWindow is optional
BestWindowsFrom(slots, i, currentWindow, windows) ==
    LET closed == IF currentWindow # None /\ currentWindow[1].count >= 2
                  THEN Append(windows, [from |-> currentWindow[1].from,
                                        to |-> currentWindow[1].to,
                                        duration_hours |-> currentWindow[1].count])
                  ELSE windows
    IN  IF i > Len(slots) THEN closed
        ELSE IF slots[i].score = "good"
        THEN BestWindowsFrom(slots, i + 1,
                 IF currentWindow = None
                 THEN Some([from |-> slots[i].time, to |-> slots[i].time, count |-> 1])
                 ELSE Some([from |-> currentWindow[1].from, to |-> slots[i].time,
                            count |-> currentWindow[1].count + 1]),
                 windows)
        ELSE BestWindowsFrom(slots, i + 1, None, closed)

\* a loop without the step that adds the window still open at the end
identifyBestWindows_open(slots) ==
    LET windows == BestWindowsFrom(slots, 1, None, <<>>)
    IN  IF slots # <<>> /\ slots[Len(slots)].score = "good" /\ windows # <<>>
           /\ windows[Len(windows)].to = slots[Len(slots)].time
        THEN SubSeq(windows, 1, Len(windows) - 1)
        ELSE windows

identifyBestWindows(slots) == BestWindowsFrom(slots, 1, None, <<>>)

\* handleAssessOutdoorActivity once its forecast sub-call returned the envelope
ActivityFinish(input, forecastResult) ==
    IF SubCallFailed(forecastResult) THEN forecastResult
    ELSE IF "hours" \notin DOMAIN forecastResult.structuredContent
    THEN ToolCatch(ShapeTypeError,
                   "An unexpected error occurred while assessing outdoor activity conditions.")
    ELSE LET slots == ComfortSlots(forecastResult.structuredContent.hours,
                                   ACTIVITY_THRESHOLDS(input.activity), FALSE)
         IN  buildToolResponse(
                 [location |-> input.location,
                  activity |-> input.activity,
                  slots |-> slots,
                  bestWindows |-> identifyBestWindows(slots)],
                 <<"Weather assessment">>)

(***************************************************************************)
(* Tool bodies as continuations.  A step of a body ends in one of          *)
(*   [kind |-> "throw", error]   the handler rejects,                      *)
(*   [kind |-> "return", env]    the handler resolves with an envelope,    *)
(*   [kind |-> "await"]          the handler awaits ProxyClient.fetch,     *)
(* together with the new values of the body's local variables.             *)
(***************************************************************************)
Forecast == "weather_get_location_forecast"
Marine == "weather_get_marine_conditions"
Activity == "weather_assess_outdoor_activity_window"
Trip == "weather_assess_marine_trip_risk"
Nowcast == "weather_get_nowcast"
AirQuality == "weather_get_air_quality"
Places == "places_resolve_name"

\* the locals of a body that has not started
NoLocals == [wpIndex |-> 0, subCalls |-> <<>>, subResults |-> <<>>,
             assessments |-> <<>>, hotspots |-> <<>>]

\* handleAssessMarineTrip entering the loop body for sampled waypoint j:
\* handleMarineConditions runs up to its coverage gate
TripEnter(args, loc, j) ==
    LET waypoint == sampleWaypoints(args.route, MaxSamples)[j]
        called == [loc EXCEPT !.wpIndex = j, !.subCalls = Append(@, j)]
    IN  IF ~isCoastalNorway(waypoint.lat, waypoint.lon)
        THEN LET marineResult == MarineCoverageError(waypoint)
             IN  [kind |-> "return", env |-> marineResult,
                  locals |-> [called EXCEPT !.subResults = Append(@, marineResult)]]
        ELSE [kind |-> "await", locals |-> called]

\* CoordinateSchema: lat in [-90, 90], lon in [-180, 180] (tenths of a degree)
CoordinateSchema(location) ==
    /\ location.lat >= -900 /\ location.lat <= 900
    /\ location.lon >= -1800 /\ location.lon <= 1800

(***************************************************************************)
(* The place resolver.  A confidence is in hundredths, an importance score *)
(* in tenths.  `found` holds what the three lookups of PlacesDB returned   *)
(* for the normalised query.                                               *)
(***************************************************************************)
Least(a, b) == IF a < b THEN a ELSE b

Greatest(a, b) == IF a > b THEN a ELSE b

RECURSIVE KeepFirst(_, _)
\* the records of seq whose id is not in seen and not earlier in seq
KeepFirst(seq, seen) ==
    IF seq = <<>> THEN <<>>
    ELSE IF Head(seq).id \in seen THEN KeepFirst(Tail(seq), seen)
    ELSE <<Head(seq)>> \o KeepFirst(Tail(seq), seen \cup {Head(seq).id})

mergeCandidates(exactPrimary, exactAlt, ftsResults) ==
    KeepFirst(
        [i \in DOMAIN exactPrimary |-> With(exactPrimary[i], "matchType", "exact_primary")]
        \o [i \in DOMAIN exactAlt |-> With(exactAlt[i], "matchType", "exact_alt")]
        \o [i \in DOMAIN ftsResults |->
               With(With(ftsResults[i], "matchType",
                         IF ftsResults[i].fts_rank < 0 THEN "prefix" ELSE "fuzzy"),
                    "ftsRank",
                    IF ftsResults[i].fts_rank < 0
                    THEN -ftsResults[i].fts_rank ELSE ftsResults[i].fts_rank)],
        {})

applyFilters(candidates, options) ==
    LET InClasses(c) ==
            /\ c.place_class # None
            /\ \E i \in DOMAIN options.preferredPlaceClasses :
                   options.preferredPlaceClasses[i] = c.place_class[1]
        preferred ==
            IF "preferredPlaceClasses" \in DOMAIN options
               /\ Len(options.preferredPlaceClasses) > 0
            THEN SelectSeq(candidates, InClasses)
            ELSE <<>>
        filtered == IF Len(preferred) > 0 THEN preferred ELSE candidates
        InMunicipality(c) ==
            /\ c.municipality_code # None
            /\ c.municipality_code[1] = options.preferredMunicipalityCode
        Elsewhere(c) == ~InMunicipality(c)
        sorted ==
            IF "preferredMunicipalityCode" \in DOMAIN options
            THEN SelectSeq(filtered, InMunicipality) \o SelectSeq(filtered, Elsewhere)
            ELSE filtered
    IN  SubSeq(sorted, 1, Least(Len(sorted), options.limit * 2))

\* the body of assignConfidence's map; index counts from 0
confidenceOf(candidate, index) ==
    LET base ==
            CASE candidate.matchType = "exact_primary" -> 100
              [] candidate.matchType = "exact_alt" -> 85
              [] candidate.matchType = "prefix" -> 70
              [] candidate.matchType = "fuzzy" -> 40 + Least(30, candidate.ftsRank)
        countySeat == IF candidate.is_county_seat = 1 THEN 5 ELSE 0
        municipalitySeat == IF candidate.is_municipality_seat = 1 THEN 3 ELSE 0
        importance ==
            IF candidate.importance_score # None /\ candidate.importance_score[1] > 0
            THEN Least(5, candidate.importance_score[1])
            ELSE 0
    IN  Greatest(0, Least(100, base + countySeat + municipalitySeat + importance - index))

assignConfidence(candidates) ==
    [i \in DOMAIN candidates |->
        LET candidate == candidates[i]
            match == [id |-> candidate.ssr_id,
                      name |-> candidate.primary_name,
                      confidence |-> confidenceOf(candidate, i - 1),
                      source |-> "SSR/Stedsnavn"]
            withCode == IF candidate.municipality_code # None
                        THEN With(match, "municipality_code", candidate.municipality_code[1])
                        ELSE match
        IN  IF candidate.place_class # None
            THEN With(withCode, "place_class", candidate.place_class[1])
            ELSE withCode]

resolveName(found, options) ==
    LET candidates == mergeCandidates(found.exactPrimary, found.exactAlt, found.ftsResults)
        filtered == applyFilters(candidates, options)
        scored == assignConfidence(filtered)
    IN  SubSeq(scored, 1, Least(Len(scored), options.limit))

generateSummary(query, matches) ==
    IF Len(matches) = 0
    THEN <<"No Norwegian places found matching ">> \o query
    ELSE IF Len(matches) = 1 /\ matches[1].confidence >= 80
    THEN <<"Resolved ">> \o query \o <<" to ", matches[1].name>>
    ELSE <<"Found ", ToString(Len(matches)), " places matching ">> \o query

handlePlaceResolve(input, found) ==
    LET matches == resolveName(found, input)
    IN  IF Len(matches) = 0
        THEN [content |-> <<[type |-> "text",
                             text |-> <<"No Norwegian places found matching ">> \o input.query]>>,
              isError |-> TRUE]
        ELSE [content |-> <<[type |-> "text",
                             text |-> generateSummary(input.query, matches)]>>,
              structuredContent |->
                  [query |-> input.query,
                   matches |-> matches,
                   source |-> [provider |-> "Kartverket",
                               product |-> "Stedsnavn (Norwegian Place Names Register)",
                               licenseUri |-> "places://license/ssr",
                               creditLine |-> "Place name data from Kartverket Stedsnavn",
                               cached |-> TRUE,
                               ageSeconds |-> 0]]]

\* PlaceResolveInputSchema accepts the arguments
PlaceResolveAccepts(args) ==
    /\ Len(args.query) >= 1 /\ Len(args.query) <= 100
    /\ "limit" \in DOMAIN args => args.limit >= 1 /\ args.limit <= 20

\* PlaceResolveInputSchema.parse of accepted arguments: the defaults are set
PlaceResolveParse(args) ==
    IF "limit" \in DOMAIN args THEN args ELSE With(args, "limit", 5)

\* the bounds of the tool's input schema hold for the arguments
SchemaAccepts(r) ==
    IF r.tool = Places THEN PlaceResolveAccepts(r.args)
    ELSE IF r.tool = Trip
    THEN /\ Len(r.args.route) >= 2
         /\ \A i \in DOMAIN r.args.route : CoordinateSchema(r.args.route[i])
    ELSE CoordinateSchema(r.args.location)

\* handleMarineConditions from its start to its first await
MarineEnter(input) ==
    IF ~isCoastalNorway(input.location.lat, input.location.lon)
    THEN [kind |-> "return", env |-> MarineCoverageError(input.location), locals |-> NoLocals]
    ELSE [kind |-> "await", locals |-> NoLocals]

\* handleNowcast from its start to its first await
NowcastEnter(input) ==
    IF ~isNordic(input.location.lat, input.location.lon)
    THEN [kind |-> "return",
          env |-> buildErrorResponse(createOutOfCoverageError(
                      <<"Nowcast is only available for the Nordic region (roughly 55-72N, 4-32E). For global forecasts, use weather.get_location_forecast instead.">>,
                      input.location)),
          locals |-> NoLocals]
    ELSE [kind |-> "await", locals |-> NoLocals]

\* handleAirQuality from its start to its first await
AirQualityEnter(input) ==
    IF ~isNorway(input.location.lat, input.location.lon)
    THEN [kind |-> "return",
          env |-> buildErrorResponse(createOutOfCoverageError(
                      <<"Air quality forecasts are only available for Norway (roughly 58-71N, 4-31E).">>,
                      input.location)),
          locals |-> NoLocals]
    ELSE [kind |-> "await", locals |-> NoLocals]

\* the registered handler from its start to its first await; Schema.parse
\* throws on arguments of a wrong type (r.valid is FALSE) or out of bounds
StartBody(r) ==
    IF ~r.valid \/ ~SchemaAccepts(r) THEN [kind |-> "throw", error |-> ZodError, locals |-> NoLocals]
    ELSE IF r.tool = Places
    THEN [kind |-> "return", env |-> handlePlaceResolve(PlaceResolveParse(r.args), r.found),
          locals |-> NoLocals]
    ELSE IF r.tool = Marine THEN MarineEnter(r.args)
    ELSE IF r.tool = Trip THEN TripEnter(r.args, NoLocals, 1)
    ELSE IF r.tool = Activity
    THEN [kind |-> "await", locals |-> [NoLocals EXCEPT !.subCalls = <<1>>]]
    ELSE [kind |-> "await", locals |-> NoLocals]

\* handleAssessMarineTrip once the sub-call for waypoint loc.wpIndex returned
TripAfterSubCall(args, loc, marineResult) ==
    LET sampled == sampleWaypoints(args.route, MaxSamples)
        waypoint == sampled[loc.wpIndex]
        got == [loc EXCEPT !.subResults = Append(@, marineResult)]
        unexpected == "An unexpected error occurred while assessing marine trip risk."
    IN  IF SubCallFailed(marineResult)
        THEN [kind |-> "return", env |-> marineResult, locals |-> got]
        ELSE IF "hours" \notin DOMAIN marineResult.structuredContent
        THEN [kind |-> "return", env |-> ToolCatch(ShapeTypeError, unexpected),
              locals |-> got]
        ELSE LET hours == marineResult.structuredContent.hours
                 pushed == [got EXCEPT
                               !.assessments = Append(@, WaypointAssessment(waypoint, hours)),
                               !.hotspots = @ \o WaypointHotspots(waypoint, hours)]
             IN  IF loc.wpIndex = Len(sampled)
                 THEN [kind |-> "return",
                       env |-> TripFinish(args, pushed.assessments, pushed.hotspots),
                       locals |-> pushed]
                 ELSE TripEnter(args, pushed, loc.wpIndex + 1)

\* the handler from the settling of its fetch to its next await
AfterFetch(r, loc, outcome) ==
    IF r.tool = Forecast
    THEN [kind |-> "return", env |-> ForecastFinish(r.args, outcome), locals |-> loc]
    ELSE IF r.tool = Marine
    THEN [kind |-> "return", env |-> MarineFinish(r.args, outcome), locals |-> loc]
    ELSE IF r.tool = Activity
    THEN LET forecastResult == ForecastFinish(r.args, outcome)
         IN  [kind |-> "return", env |-> ActivityFinish(r.args, forecastResult),
              locals |-> [loc EXCEPT !.subResults = Append(@, forecastResult)]]
    ELSE TripAfterSubCall(
             r.args, loc,
             MarineFinish([location |-> sampleWaypoints(r.args.route, MaxSamples)[loc.wpIndex],
                           vesselType |-> r.args.vesselType],
                          outcome))

(***************************************************************************)
(* Tool wrapper (wrapTool).                                                *)
(***************************************************************************)
\* None of the summaries the tools build matches one of the three patterns
\* ("Error: X", "[X]", "code: X"), so no code is extracted from them.
extractErrorCode(text) == None

\* a bug that counts every cached flag as a hit
extractCacheStatus_hit(structuredContent) ==
    IF "source" \notin DOMAIN structuredContent THEN None
    ELSE IF "cached" \in DOMAIN structuredContent.source THEN Some("HIT")
    ELSE None

extractCacheStatus(structuredContent) ==
    IF "source" \notin DOMAIN structuredContent THEN None
    ELSE IF "cached" \in DOMAIN structuredContent.source
         THEN Some(IF structuredContent.source.cached THEN "HIT" ELSE "MISS")
    ELSE None

\* a bug that rethrows a wrapped exception
Rethrow_wrapped(error) == [name |-> "Error", message |-> error.message]

\* throw error
Rethrow(error) == error

\* The wrapper from the settling of the handler to its own settling.
\* lg and st are the log and the context store as the body left them.
WrapSettle(c, tool, rid, start, now, lg, st, step) ==
    LET latencyMs == now - start
    IN  /\ pc' = [pc EXCEPT ![c] = "done"]
        /\ latencies' = recordLatency(latencies, tool, latencyMs)
        /\ callerSaw' = [callerSaw EXCEPT ![c] = Some(getRequestId(st, Outside))]
        /\ store' = st
        /\ IF step.kind = "return"
           THEN LET res == step.env
                    outcome == IF IsErrorEnvelope(res) THEN "error" ELSE "success"
                    errorCode == IF IsErrorEnvelope(res) /\ res.content[1].text # <<>>
                                 THEN extractErrorCode(res.content[1].text) ELSE None
                    cacheStatus == IF ~IsErrorEnvelope(res)
                                   THEN extractCacheStatus(res.structuredContent)
                                   ELSE None
                IN  /\ log' = logToolEnd(minLevel, lg, tool, latencyMs, outcome, rid, errorCode)
                    /\ toolCalls' = incrementToolCall(toolCalls, tool, outcome)
                    /\ cacheStatuses' = IF cacheStatus # None
                                        THEN incrementCacheStatus(cacheStatuses, cacheStatus[1])
                                        ELSE cacheStatuses
                    /\ result' = [result EXCEPT ![c] = Some(res)]
                    /\ thrown' = thrown
           ELSE /\ log' = logError(minLevel,
                                   logToolEnd(minLevel, lg, tool, latencyMs, "error", rid,
                                              Some("INTERNAL_ERROR")),
                                   step.error, rid, tool)
                /\ toolCalls' = incrementToolCall(toolCalls, tool, "error")
                /\ cacheStatuses' = cacheStatuses
                /\ result' = result
                /\ thrown' = [thrown EXCEPT ![c] = Some(Rethrow(step.error))]

\* the body's locals after a step
SetLocals(c, loc) ==
    /\ wpIndex' = [wpIndex EXCEPT ![c] = loc.wpIndex]
    /\ subCalls' = [subCalls EXCEPT ![c] = loc.subCalls]
    /\ subResults' = [subResults EXCEPT ![c] = loc.subResults]
    /\ assessments' = [assessments EXCEPT ![c] = loc.assessments]
    /\ hotspots' = [hotspots EXCEPT ![c] = loc.hotspots]

LocalsOf(c) == [wpIndex |-> wpIndex[c], subCalls |-> subCalls[c],
                subResults |-> subResults[c], assessments |-> assessments[c],
                hotspots |-> hotspots[c]]

\* the body awaits ProxyClient.fetch: a request id, the deadline timer, the request
AwaitFetch(c, lg, st, uuid) ==
    /\ pc' = [pc EXCEPT ![c] = "fetching"]
    /\ fetchId' = [fetchId EXCEPT ![c] = uuid]
    /\ nextUuid' = uuid + 1
    /\ timer' = [timer EXCEPT ![c] = "armed"]
    /\ log' = lg
    /\ store' = st
    /\ UNCHANGED <<toolCalls, latencies, cacheStatuses, result, thrown, callerSaw>>

(***************************************************************************)
(* Configuration (loadConfig) and startup (main).                          *)
(***************************************************************************)
\* process.env.X || fallback, for an optional string
OrDefault(opt, fallback) == IF opt = None \/ opt[1] = "" THEN fallback ELSE opt[1]

\* loadConfig: <<>> when it throws, else <<the ServerConfig>>
loadConfig(env) ==
    LET weatherMcpLogLevel == OrDefault(env.VAER_LOG_LEVEL, "info")
        weatherMcpAuthMode == OrDefault(env.VAER_AUTH_MODE, "none")
        weatherMcpApiKey == env.VAER_API_KEY
        base == [metnoTimeoutMs |-> DefaultTimeoutMs,
                 weatherMcpLogLevel |-> weatherMcpLogLevel,
                 weatherMcpAuthMode |-> weatherMcpAuthMode]
    IN  IF weatherMcpLogLevel \notin {"debug", "info", "warn", "error"} THEN None
        ELSE IF weatherMcpAuthMode \notin {"none", "api-key", "jwt"} THEN None
        ELSE IF weatherMcpAuthMode = "api-key" /\ OrDefault(weatherMcpApiKey, "") = ""
        THEN None
        ELSE IF weatherMcpApiKey = None THEN Some(base)
        ELSE Some(With(base, "weatherMcpApiKey", weatherMcpApiKey[1]))

\* the environments of a process: log levels and auth settings to draw from
Envs(levels, auths) ==
    {[VAER_LOG_LEVEL |-> l, VAER_AUTH_MODE |-> a[1], VAER_API_KEY |-> a[2]] :
        l \in levels, a \in auths}

\* the state once main has loaded the configuration and set the log level
InitWith(envs) ==
    /\ config \in {loadConfig(env)[1] : env \in {e \in envs : loadConfig(e) # None}}
    /\ minLevel = config.weatherMcpLogLevel
    /\ proc = [state |-> "running", stdin |-> "listening", signals |-> 0, exitCode |-> None]
    /\ log = <<>>
    /\ toolCalls = [k \in {Forecast, Marine, Activity, Trip, Places} \X {"success", "error"} |-> 0]
    /\ latencies = [t \in {Forecast, Marine, Activity, Trip, Places} |-> [sum |-> 0, count |-> 0]]
    /\ cacheStatuses = [st \in {"HIT", "MISS"} |-> 0]
    /\ store = [ch \in Chains |-> None]
    /\ nextUuid = 1
    /\ pc = [c \in Calls |-> "idle"]
    /\ req = [c \in Calls |-> None]
    /\ session = [c \in Calls |-> "none"]
    /\ requestId = [c \in Calls |-> 0]
    /\ startTime = [c \in Calls |-> 0]
    /\ fetchId = [c \in Calls |-> 0]
    /\ timer = [c \in Calls |-> "none"]
    /\ wpIndex = [c \in Calls |-> 0]
    /\ subCalls = [c \in Calls |-> <<>>]
    /\ assessments = [c \in Calls |-> <<>>]
    /\ hotspots = [c \in Calls |-> <<>>]
    /\ observed = [c \in Calls |-> <<>>]
    /\ subResults = [c \in Calls |-> <<>>]
    /\ settled = [c \in Calls |-> None]
    /\ result = [c \in Calls |-> None]
    /\ thrown = [c \in Calls |-> None]
    /\ callerSaw = [c \in Calls |-> None]

(***************************************************************************)
(* Actions.  `now` is the reading of Date.now() in the continuation; the   *)
(* wall clock is taken not to run backwards during a call.                 *)
(***************************************************************************)
Clock == 0..MaxClock

\* POST /mcp: a fresh transport for the request, connected to the shared
\* server, which dispatches the tools/call to the wrapped handler; the
\* wrapper binds the context, logs the start and runs the body to its first
\* await.  The handler looks at no header of the request.
PostMcp(c, r, now, end) ==
    /\ pc[c] = "idle"
    /\ \A d \in Calls : d < c => pc[d] # "idle"
    /\ end >= now
    /\ LET rid == nextUuid
           context == [requestId |-> rid, toolName |-> r.tool, startTime |-> now]
           st == runWithContext(store, c, context)
           lg == logToolStart(minLevel, log, r.tool, rid)
           step == StartBody(r)
       IN  /\ req' = [req EXCEPT ![c] = Some(r)]
           /\ session' = [session EXCEPT ![c] = "open"]
           /\ requestId' = [requestId EXCEPT ![c] = rid]
           /\ startTime' = [startTime EXCEPT ![c] = now]
           /\ SetLocals(c, step.locals)
           /\ UNCHANGED <<config, proc, minLevel, calc, observed, settled>>
           /\ IF step.kind = "await"
              THEN /\ end = now
                   /\ AwaitFetch(c, lg, st, rid + 1)
              ELSE /\ WrapSettle(c, r.tool, rid, now, end, lg, st, step)
                   /\ nextUuid' = rid + 1
                   /\ UNCHANGED <<fetchId, timer>>

\* The fetch of call c settles on event ev: ProxyClient.fetch runs to its
\* end, the tool body runs to its next await or to its end, and then the
\* wrapper settles.  lg and obs are the log and the ids observed so far, tm
\* is the timer afterwards.
Continue(c, ev, lg, obs, tm, now) ==
    /\ now >= startTime[c]
    /\ LET r == req[c][1]
           outcome == FetchSettle(ev, config.metnoTimeoutMs, Some(fetchId[c]))
           step == AfterFetch(r, LocalsOf(c), outcome)
       IN  /\ settled' = [settled EXCEPT ![c] = Some([event |-> ev, outcome |-> outcome])]
           /\ observed' = [observed EXCEPT ![c] = obs]
           /\ SetLocals(c, step.locals)
           /\ UNCHANGED <<config, proc, minLevel, calc, req, session, requestId, startTime>>
           /\ IF step.kind = "await"
              THEN AwaitFetch(c, lg, store, nextUuid)
              ELSE /\ WrapSettle(c, r.tool, requestId[c], startTime[c], now, lg, store, step)
                   /\ timer' = [timer EXCEPT ![c] = tm]
                   /\ UNCHANGED <<fetchId, nextUuid>>

\* the upstream answers: clearTimeout, the context's request id is read for
\* the upstream-call entry, then a status outside 2xx is thrown and caught,
\* and a 2xx answer awaits its body
UpstreamRespond(c, ev, now) ==
    /\ pc[c] = "fetching"
    /\ ev.kind = "response"
    /\ LET contextRequestId == getRequestId(store, c)
           cache == parseCacheHeaders(ev.headers)
           lg == logUpstreamCall(minLevel, log, ev.status,
                                 IF "status" \in DOMAIN cache THEN Some(cache.status) ELSE None,
                                 IF contextRequestId # None
                                 THEN contextRequestId[1] ELSE fetchId[c])
           obs == Append(observed[c], contextRequestId)
       IN  IF ev.status >= 200 /\ ev.status <= 299
           THEN /\ pc' = [pc EXCEPT ![c] = "reading"]
                /\ timer' = [timer EXCEPT ![c] = "none"]
                /\ log' = lg
                /\ observed' = [observed EXCEPT ![c] = obs]
                /\ settled' = [settled EXCEPT ![c] = Some([event |-> ev])]
                /\ UNCHANGED <<config, proc, minLevel, calc, toolCalls, latencies, cacheStatuses,
                               store, nextUuid, req, session, requestId, startTime,
                               fetchId, wpIndex, subCalls, assessments, hotspots,
                               subResults, result, thrown, callerSaw>>
           ELSE Continue(c, ev, lg, obs, "none", now)

\* response.json() settles: with the data, or with a SyntaxError
BodyRead(c, now) ==
    /\ pc[c] = "reading"
    /\ Continue(c, settled[c][1].event, log, observed[c], timer[c], now)

\* the request fails below HTTP: the catch block runs, the timer stays armed
UpstreamReject(c, ev, now) ==
    /\ pc[c] = "fetching"
    /\ ev.kind = "reject"
    /\ Continue(c, ev, log, observed[c], timer[c], now)

\* the deadline timer fires: controller.abort().  A fetch in flight rejects
\* with the platform's abort exception; a fetch that already failed is not
\* affected.
TimerFire(c, abortError, now) ==
    /\ timer[c] = "armed"
    /\ IF pc[c] = "fetching"
       THEN Continue(c, [kind |-> "reject", error |-> abortError, aborted |-> TRUE],
                     log, observed[c], "none", now)
       ELSE /\ timer' = [timer EXCEPT ![c] = "none"]
            /\ UNCHANGED <<config, proc, minLevel, calc, log, toolCalls, latencies, cacheStatuses,
                           store, nextUuid, pc, req, session, requestId, startTime,
                           fetchId, wpIndex, subCalls, assessments, hotspots, observed,
                           subResults, settled, result, thrown, callerSaw>>

\* res.on('close'): the request's own transport is closed
ResClose(c) ==
    /\ session[c] = "open"
    /\ session' = [session EXCEPT ![c] = "closed"]
    /\ UNCHANGED <<config, proc, minLevel, calc, log, toolCalls, latencies, cacheStatuses, store,
                   nextUuid, pc, req, requestId, startTime, fetchId, timer, wpIndex,
                   subCalls, assessments, hotspots, observed, subResults, settled,
                   result, thrown, callerSaw>>

(***************************************************************************)
(* Inputs: locations, requests and upstream events.                        *)
(***************************************************************************)
Oslo == [lat |-> 599, lon |-> 107]
NewYork == [lat |-> 407, lon |-> -740]

\* Locationforecast series: a mild hour and a stormy one
ForecastSeries ==
    <<[time |-> 1, air_temperature |-> 12, wind_speed |-> 3],
      [time |-> 2, air_temperature |-> 2, wind_speed |-> 14, precipitation_rate |-> 30]>>

\* Oceanforecast series in tenths: calm water, and calm water then high waves
CalmSeries == <<[time |-> 1, wave |-> 2, current |-> 1]>>
RoughSeries == <<[time |-> 1, wave |-> 2, current |-> 1], [time |-> 2, wave |-> 9, current |-> 1]>>

SeriesOf(tool) == IF tool \in {Forecast, Activity} THEN {ForecastSeries}
                  ELSE {CalmSeries, RoughSeries}

Ok(headers, body) ==
    [kind |-> "response", status |-> 200, statusText |-> "OK", headers |-> headers,
     body |-> body]

Failure(status, statusText, headers) ==
    [kind |-> "response", status |-> status, statusText |-> statusText,
     headers |-> headers, body |-> None]

NoHeaders == [h \in {} |-> <<>>]
HitHeaders == [h \in {"X-Proxy-Cache", "Age"} |->
                  IF h = "Age" THEN <<"4", "2">> ELSE <<"h", "i", "t">>]
RetryHeaders == [h \in {"Retry-After"} |-> <<"3", "0">>]

\* answers with a usable body, from the cache or not
GoodResponses(tool) ==
    {Ok(h, Some([timeseries |-> ts])) : h \in {NoHeaders, HitHeaders}, ts \in SeriesOf(tool)}

\* answers the client or the tool cannot use
BadResponses ==
    {Ok(NoHeaders, None), Ok(NoHeaders, Some([type |-> "Feature"])),
     Failure(429, "Too Many Requests", RetryHeaders),
     Failure(404, "Not Found", NoHeaders)}

\* the usable answers to the request call c has in flight
Answers(c) == IF req[c] = None THEN {} ELSE GoodResponses(req[c][1].tool)

Rejections == {[kind |-> "reject", error |-> e] : e \in RawNetworkErrors}

ForecastRequests ==
    {[tool |-> Forecast, valid |-> v, args |-> [location |-> Oslo]] : v \in BOOLEAN}
MarineRequests ==
    {[tool |-> Marine, valid |-> TRUE, args |-> [location |-> l, vesselType |-> "kayak"]] :
        l \in {Oslo, NewYork}}
ActivityRequests ==
    {[tool |-> Activity, valid |-> TRUE, args |-> [location |-> Oslo, activity |-> "running"]]}

RECURSIVE Routes(_)
\* the routes of n waypoints
Routes(n) == IF n = 0 THEN {<<>>}
             ELSE {Append(rt, l) : rt \in Routes(n - 1), l \in {Oslo, NewYork}}

TripRequests ==
    {[tool |-> Trip, valid |-> TRUE, args |-> [route |-> rt, vesselType |-> "kayak"]] :
        rt \in UNION {Routes(n) : n \in 2..MaxRoute}}

\* requests whose arguments are of the right type and violate a schema bound
NorthOfPole == [lat |-> 901, lon |-> 107]
WestOfDateLine == [lat |-> 599, lon |-> -1801]

OutOfBoundsRequests ==
    {[tool |-> Forecast, valid |-> TRUE, args |-> [location |-> l]] :
        l \in {NorthOfPole, WestOfDateLine}}
    \cup {[tool |-> Marine, valid |-> TRUE,
           args |-> [location |-> NorthOfPole, vesselType |-> "kayak"]]}
    \cup {[tool |-> Trip, valid |-> TRUE, args |-> [route |-> rt, vesselType |-> "kayak"]] :
            rt \in Routes(1) \cup {<<Oslo, NorthOfPole>>}}

\* the request with the headers it carries
\* rows of the places table: two places named Vik and a farm without
\* municipality, class or importance
VikSogn == [id |-> 1, ssr_id |-> "ssr-1", primary_name |-> "Vik",
            importance_score |-> Some(3), is_county_seat |-> 0, is_municipality_seat |-> 0,
            municipality_code |-> Some("4640"), place_class |-> Some("village")]
VikNordland == [id |-> 2, ssr_id |-> "ssr-2", primary_name |-> "Vik",
                importance_score |-> Some(2), is_county_seat |-> 1, is_municipality_seat |-> 1,
                municipality_code |-> Some("1812"), place_class |-> Some("town")]
Vika == [id |-> 3, ssr_id |-> "ssr-3", primary_name |-> "Vika",
         importance_score |-> None, is_county_seat |-> 0, is_municipality_seat |-> 0,
         municipality_code |-> None, place_class |-> None]

\* what findExactPrimary and findExactAlt can return: rows by descending
\* importance, rows without importance last
ExactResults ==
    {SelectSeq(<<VikSogn, VikNordland, Vika>>, LAMBDA row : row.id \in ids) :
        ids \in SUBSET {1, 2, 3}}

FtsRanks == {-10, 0, 15}

\* what findFTS can return: up to two rows by ascending rank
FtsResults ==
    {<<>>}
    \cup {<<With(row, "fts_rank", rank)>> : row \in {VikSogn, VikNordland, Vika}, rank \in FtsRanks}
    \cup {<<With(pair[1], "fts_rank", ranks[1]), With(pair[2], "fts_rank", ranks[2])>> :
            pair \in {q \in {VikSogn, VikNordland, Vika} \X {VikSogn, VikNordland, Vika} :
                         q[1].id # q[2].id},
            ranks \in {k \in FtsRanks \X FtsRanks : k[1] <= k[2]}}

Found == [exactPrimary : ExactResults, exactAlt : ExactResults, ftsResults : FtsResults]

NothingFound == [exactPrimary |-> <<>>, exactAlt |-> <<>>, ftsResults |-> <<>>]

MaxLimit == 2

\* arguments PlaceResolveInputSchema accepts, with the limit given or left out
PlaceArgs ==
    {[k \in {"query"} \cup present |-> full[k]] :
        present \in SUBSET {"limit", "preferredPlaceClasses", "preferredMunicipalityCode"},
        full \in [query : {<<"v", "i", "k">>},
                  limit : 1..MaxLimit,
                  preferredPlaceClasses : {<<>>, <<"town">>},
                  preferredMunicipalityCode : {"1812"}]}

PlaceRequests ==
    {[tool |-> Places, valid |-> TRUE, args |-> args, found |-> found] :
        args \in {a \in PlaceArgs : DOMAIN a \subseteq {"query", "limit"}},
        found \in {NothingFound,
                   [NothingFound EXCEPT !.exactPrimary = <<VikSogn, VikNordland>>],
                   [NothingFound EXCEPT !.exactAlt = <<VikSogn, VikNordland>>]}}

WithHeaders(r, headers) == With(r, "headers", headers)

NoAuth == <<None, None>>
ApiKeyAuth == <<Some("api-key"), Some("s3cret")>>

(***************************************************************************)
(* Specifications.                                                         *)
(***************************************************************************)
\* one tool call from the request to its settling: every tool, every
\* upstream event, every log level
Init ==
    /\ InitWith(Envs({None, Some("debug"), Some("warn"), Some("error")}, {NoAuth}))
    /\ calc = Idle

Next ==
    \E now \in Clock :
        \/ \E r \in ForecastRequests \cup MarineRequests \cup ActivityRequests
                      \cup TripRequests \cup OutOfBoundsRequests \cup PlaceRequests,
              end \in Clock :
               PostMcp(1, WithHeaders(r, NoHeaders), now, end)
        \/ \E ev \in Answers(1) \cup BadResponses : UpstreamRespond(1, ev, now)
        \/ BodyRead(1, now)
        \/ \E ev \in Rejections : UpstreamReject(1, ev, now)
        \/ \E abortError \in AbortRejections : TimerFire(1, abortError, now)

Spec == Init /\ [][Next]_vars

\* interleaved tool calls: the continuations of the calls in any order
InitConc ==
    /\ InitWith(Envs({None, Some("debug")}, {NoAuth}))
    /\ calc = Idle

NextConc ==
    \E c \in Calls :
        \/ \E r \in ForecastRequests \cup ActivityRequests :
               PostMcp(c, WithHeaders(r, NoHeaders), 0, 0)
        \/ \E ev \in Answers(c) : UpstreamRespond(c, ev, 0)
        \/ BodyRead(c, 0)
        \/ \E ev \in Rejections : UpstreamReject(c, ev, 0)
        \/ \E abortError \in AbortRejections : TimerFire(c, abortError, 0)

SpecConc == InitConc /\ [][NextConc]_vars

\* the HTTP transport with and without authentication configured
InitHttp ==
    /\ InitWith(Envs({None}, {NoAuth, ApiKeyAuth}))
    /\ calc = Idle

NextHttp ==
    \E c \in Calls :
        \/ \E r \in {q \in ForecastRequests : q.valid},
              headers \in {NoHeaders} \cup {[h \in {"x-api-key"} |-> k] : k \in {"s3cret", "wrong"}} :
               PostMcp(c, WithHeaders(r, headers), 0, 0)
        \/ \E ev \in Answers(c) : UpstreamRespond(c, ev, 0)
        \/ BodyRead(c, 0)
        \/ \E ev \in Rejections : UpstreamReject(c, ev, 0)
        \/ \E abortError \in AbortRejections : TimerFire(c, abortError, 0)
        \/ ResClose(c)

SpecHttp == InitHttp /\ [][NextHttp]_vars

(***************************************************************************)
(* The stdio transport and its shutdown handler.                           *)
(***************************************************************************)
MaxSignals == 1

\* a tools/call message read from stdin: the server dispatches it to the
\* wrapped handler as POST /mcp does, while the transport listens
StdinData(c, r) ==
    /\ proc.state # "exited"
    /\ proc.stdin = "listening"
    /\ PostMcp(c, WithHeaders(r, NoHeaders), 0, 0)

\* a continuation of call c runs only while the process lives
Alive == proc.state # "exited"

\* SIGINT or SIGTERM: the handler logs and calls server.close(), which
\* closes the transport (stdin is no longer read), and awaits its promise
shutdown ==
    /\ proc.state # "exited"
    /\ proc.signals < MaxSignals
    /\ log' = write(minLevel, log, "info", <<"Shutdown signal received, closing server...">>, <<>>)
    /\ proc' = [proc EXCEPT !.state = "closing", !.stdin = "closed", !.signals = @ + 1]
    /\ UNCHANGED <<config, minLevel, calc, toolCalls, latencies, cacheStatuses, store,
                   nextUuid, pc, req, session, requestId, startTime, fetchId, timer,
                   wpIndex, subCalls, assessments, hotspots, observed, subResults,
                   settled, result, thrown, callerSaw>>

\* the promise of server.close() settles: process.exit(0) when it resolved,
\* process.exit(1) from the catch block when it rejected
shutdownSettle(resolved) ==
    /\ proc.state = "closing"
    /\ log' = IF resolved
              THEN write(minLevel, log, "info", <<"Server closed successfully">>, <<>>)
              ELSE write(minLevel, log, "error", <<"Error during shutdown">>, <<>>)
    /\ proc' = [proc EXCEPT !.state = "exited",
                            !.exitCode = Some(IF resolved THEN 0 ELSE 1)]
    /\ UNCHANGED <<config, minLevel, calc, toolCalls, latencies, cacheStatuses, store,
                   nextUuid, pc, req, session, requestId, startTime, fetchId, timer,
                   wpIndex, subCalls, assessments, hotspots, observed, subResults,
                   settled, result, thrown, callerSaw>>

InitStdio ==
    /\ InitWith(Envs({None}, {NoAuth}))
    /\ calc = Idle

NextStdio ==
    \/ shutdown
    \/ \E resolved \in BOOLEAN : shutdownSettle(resolved)
    \/ \E c \in Calls :
        \/ \E r \in ForecastRequests \cup MarineRequests : StdinData(c, r)
        \/ \E ev \in Answers(c) : Alive /\ UpstreamRespond(c, ev, 0)
        \/ Alive /\ BodyRead(c, 0)
        \/ \E ev \in Rejections : Alive /\ UpstreamReject(c, ev, 0)
        \/ \E abortError \in AbortRejections : Alive /\ TimerFire(c, abortError, 0)

SpecStdio == InitStdio /\ [][NextStdio]_vars

(***************************************************************************)
(* Concurrent tool calls with a reader of the logs and of GET /metrics.    *)
(***************************************************************************)
\* the reader takes the entries written to stderr so far
ReadLog ==
    /\ IF calc = Idle THEN TRUE ELSE calc.out # None
    /\ calc' = [fn |-> "exportPrometheus", in |-> log, out |-> None]
    /\ UNCHANGED serverVars

\* GET /metrics: the handler exports the collector's counters in one step
GetMetrics ==
    /\ calc.fn = "exportPrometheus"
    /\ calc.out = None
    /\ calc' = [calc EXCEPT !.out = Some(exportPrometheus(toolCalls, latencies, cacheStatuses))]
    /\ UNCHANGED serverVars

InitMetrics ==
    /\ InitWith(Envs({None}, {NoAuth}))
    /\ calc = Idle

NextMetrics ==
    \/ ReadLog
    \/ GetMetrics
    \/ \E c \in Calls :
        \/ \E r \in ForecastRequests \cup {m \in MarineRequests : m.args.location = NewYork} :
               PostMcp(c, WithHeaders(r, NoHeaders), 0, 0)
        \/ \E ev \in {e \in Answers(c) : e.headers = NoHeaders}
                      \cup {Failure(404, "Not Found", NoHeaders)} :
               UpstreamRespond(c, ev, 0)
        \/ BodyRead(c, 0)

SpecMetrics == InitMetrics /\ [][NextMetrics]_vars

(***************************************************************************)
(* Functions of the code applied on their own to drawn inputs.  calc holds *)
(* the function's name, its input and, once applied, its output.           *)
(***************************************************************************)
Pending(fn, in) == [fn |-> fn, in |-> in, out |-> None]

Applied(fn) == calc.fn = fn /\ calc.out # None

Return(fn, out) ==
    /\ calc.fn = fn
    /\ calc.out = None
    /\ calc' = [calc EXCEPT !.out = Some(out)]
    /\ UNCHANGED serverVars

MaxStamp == 2

\* timestamps are whole hours
Stamps == 0..MaxStamp

TimeWindowPreset == {"next_24h", "next_48h", "next_7d", "full_available"}

\* the objects TimeWindowSchema accepts: each of from, to, preset present or not
TimeWindows ==
    {[k \in present |-> full[k]] :
        present \in SUBSET {"from", "to", "preset"},
        full \in [from : Stamps, to : Stamps, preset : TimeWindowPreset]}

\* resolveTimeWindow of the location forecast tool; now is new Date()
resolveTimeWindow(timeWindow, now) ==
    IF timeWindow = None \/ "preset" \notin DOMAIN timeWindow[1]
    THEN [from |-> now, to |-> now + 48]
    ELSE LET preset == timeWindow[1].preset
             hours == CASE preset = "next_24h" -> 24
                        [] preset = "next_48h" -> 48
                        [] preset = "next_7d" -> 7 * 24
                        [] preset = "full_available" -> 10 * 24
                        [] OTHER -> 48
         IN  [from |-> now, to |-> now + hours]

\* resolveTimeWindow of the marine conditions tool
marineResolveTimeWindow(timeWindow, now) ==
    IF timeWindow = None \/ "preset" \notin DOMAIN timeWindow[1]
    THEN [from |-> now, to |-> now + 48]
    ELSE LET preset == timeWindow[1].preset
         IN  CASE preset = "next_24h" -> [from |-> now, to |-> now + 24]
               [] preset = "next_48h" -> [from |-> now, to |-> now + 48]
               [] OTHER -> [from |-> now, to |-> now + 48]

ResolveInputs ==
    {Pending("resolveTimeWindow", [tool |-> tool, timeWindow |-> tw, now |-> now]) :
        tool \in {Forecast, Marine},
        tw \in {None} \cup {Some(w) : w \in TimeWindows},
        now \in Clock}

ResolveTimeWindow ==
    Return("resolveTimeWindow",
           IF calc.in.tool = Forecast
           THEN resolveTimeWindow(calc.in.timeWindow, calc.in.now)
           ELSE marineResolveTimeWindow(calc.in.timeWindow, calc.in.now))

\* coordinates on, just inside and just outside every bound of the fences
FenceLats == {549, 550, 579, 580, 589, 590, 605, 606, 630, 631, 710, 711, 720, 721}
FenceLons == {39, 40, 44, 45, 80, 81, 99, 100, 115, 116, 310, 311, 320, 321}

GateInputs ==
    {Pending("enter", [tool |-> tool, args |-> [location |-> [lat |-> lat, lon |-> lon]]]) :
        tool \in {Nowcast, AirQuality, Marine}, lat \in FenceLats, lon \in FenceLons}

\* a gated handler runs from its start to its return or to its first await
EnterGated ==
    Return("enter",
           CASE calc.in.tool = Nowcast -> NowcastEnter(calc.in.args)
             [] calc.in.tool = AirQuality -> AirQualityEnter(calc.in.args)
             [] calc.in.tool = Marine -> MarineEnter(calc.in.args))

ResolveNameInputs ==
    {Pending("resolveName", [found |-> found, options |-> PlaceResolveParse(args)]) :
        found \in Found, args \in PlaceArgs}

\* resolveName on what the lookups returned
ResolveName == Return("resolveName", resolveName(calc.in.found, calc.in.options))

MaxRouteLen == 12

\* a route of n distinct waypoints up the western coast
CoastRoute(n) == [k \in 1..n |-> [lat |-> 580 + k, lon |-> 50]]

SampleInputs == {Pending("sampleWaypoints", CoastRoute(n)) : n \in 2..MaxRouteLen}

\* sampleWaypoints(input.route) with the default maxSamples
SampleWaypoints == Return("sampleWaypoints", sampleWaypoints(calc.in, MaxSamples))

MaxAssessed == 2

RiskLevels == {"low", "moderate", "high", "extreme"}

\* the hours of one waypoint's marine output: none, one or two, of any risk
HourLists ==
    {<<>>}
    \cup {<<[risk_level |-> a]>> : a \in RiskLevels}
    \cup {<<[risk_level |-> a], [risk_level |-> b]>> : a \in RiskLevels, b \in RiskLevels}

AssessInputs ==
    {Pending("aggregateTripRisk", hours) :
        hours \in UNION {[1..n -> HourLists] : n \in 1..MaxAssessed}}

\* the loop of handleAssessMarineTrip over the waypoints' hours, then the roll-up
AggregateTripRisk ==
    LET waypointAssessments ==
            [j \in DOMAIN calc.in |-> WaypointAssessment(CoastRoute(Len(calc.in))[j], calc.in[j])]
    IN  Return("aggregateTripRisk",
               [waypoint_assessments |-> waypointAssessments,
                overall_risk |-> aggregateTripRisk(waypointAssessments)])

MaxSlots == 5

\* comfort slots of consecutive hours; the time of a slot is its hour
SlotSeries ==
    UNION {{[i \in 1..n |-> [time |-> i, score |-> scores[i]]] :
               scores \in [1..n -> {"good", "ok", "poor"}]} : n \in 0..MaxSlots}

WindowInputs == {Pending("identifyBestWindows", slots) : slots \in SlotSeries}

IdentifyBestWindows == Return("identifyBestWindows", identifyBestWindows(calc.in))

VesselTypes == {"kayak", "small_sailboat", "motorboat", "ship"}

\* wave heights and current speeds in tenths: calm, and every bound of the
\* table with the values just below and just above it
WaveHeights == {0} \cup {w + d : w \in {3, 5, 8, 10, 15, 20, 35, 50}, d \in {-1, 0, 1}}
WaterSpeeds == {0} \cup {v + d : v \in {5, 10, 15, 20, 25, 30, 40, 50, 70}, d \in {-1, 0, 1}}

RiskInputs ==
    {Pending("assessRiskLevel",
             [waveHeight |-> w, waterSpeed |-> v, vesselType |-> vesselType]) :
        w \in WaveHeights, v \in WaterSpeeds, vesselType \in VesselTypes}

AssessRiskLevel ==
    Return("assessRiskLevel",
           assessRiskLevel(calc.in.waveHeight, calc.in.waterSpeed, calc.in.vesselType))

\* values of a Retry-After header: seconds, an HTTP date, digits followed
\* by letters, the empty string
RetryAfterValues ==
    {<<"3", "0">>, <<"7">>, <<"0">>, <<"1", "2", "0">>,
     <<"W", "e", "d", ",", " ", "2", "1", " ", "O", "c", "t">>,
     <<"3", "0", "s">>, <<>>}

RateLimitInputs ==
    {Pending("handleHttpError", [status |-> status, headers |-> headers, requestId |-> rid]) :
        status \in {429, 503},
        headers \in {NoHeaders} \cup {[h \in {"Retry-After"} |-> v] : v \in RetryAfterValues},
        rid \in {None, Some(1)}}

\* ProxyClient.fetch throws handleHttpError(...) on the status and the
\* tool's catch block passes the record to buildErrorResponse
HandleHttpError ==
    LET error == handleHttpError(calc.in.status, "", calc.in.headers, calc.in.requestId)
    IN  Return("handleHttpError", [error |-> error, envelope |-> buildErrorResponse(error)])

\* the status codes of HTTP
HttpStatuses == 100..599

StatusInputs == {Pending("mapHttpStatusToErrorCode", status) : status \in HttpStatuses}

MapHttpStatusToErrorCode ==
    Return("mapHttpStatusToErrorCode", mapHttpStatusToErrorCode(calc.in))

\* values of the X-Proxy-Cache header in upper, lower and mixed case, an
\* unknown value, a known value with a letter more, the empty string
ProxyCacheValues ==
    {<<"H", "I", "T">>, <<"h", "i", "t">>, <<"H", "i", "t">>,
     <<"M", "I", "S", "S">>, <<"m", "i", "s", "s">>,
     <<"E", "X", "P", "I", "R", "E", "D">>, <<"e", "x", "p", "i", "r", "e", "d">>,
     <<"B", "Y", "P", "A", "S", "S">>, <<"b", "y", "p", "a", "s", "s">>,
     <<"S", "T", "A", "L", "E">>, <<"h", "i", "t", "s">>, <<>>}

\* values of the Age header
AgeValues ==
    {<<"0">>, <<"1", "2", "0">>, <<"-", "1">>, <<"-", "0">>, <<"+", "5">>, <<"a", "b", "c">>,
     <<"1", "2", "0", ".", "5">>, <<"5", "x">>, <<>>}

CacheInputs ==
    {Pending("parseCacheHeaders", [k \in present |-> full[k]]) :
        present \in SUBSET {"X-Proxy-Cache", "Age"},
        full \in {[h \in {"X-Proxy-Cache", "Age"} |->
                      IF h = "Age" THEN pair[2] ELSE pair[1]] :
                  pair \in ProxyCacheValues \X AgeValues}}

ParseCacheHeaders == Return("parseCacheHeaders", parseCacheHeaders(calc.in))

\* handleRecentObservations against a Frost client whose answers are given:
\* frost[k] is how the k-th kind of request settles, [ok |-> TRUE, data |-> body]
\* or [ok |-> FALSE, error |-> the WeatherError FrostClient.fetch throws].
\* The result is the envelope with the requests issued, in order.  A body
\* holds at most one row, so that grouping and sorting leave it as it is.
handleRecentObservations(input, frost) ==
    LET unexpected == "An unexpected error occurred while fetching observation data."
        byStation == "stationId" \in DOMAIN input.location
        Rows(answer) == IF "data" \in DOMAIN answer.data THEN Some(answer.data.data) ELSE None
        nearby == <<[path |-> "/sources/v0.jsonld", geometry |-> input.location]>>
        lookup == IF byStation THEN <<>> ELSE nearby
        sourcesParam == IF byStation THEN <<input.location.stationId>>
                        ELSE [i \in DOMAIN Rows(frost.nearby)[1] |-> Rows(frost.nearby)[1][i].id]
        obsRequest == [path |-> "/observations/v0.jsonld", sources |-> sourcesParam,
                       elements |-> input.elements]
        sourceIds == [i \in DOMAIN Rows(frost.observations)[1] |->
                         Rows(frost.observations)[1][i].sourceId]
        metaRequest == [path |-> "/sources/v0.jsonld", ids |-> sourceIds]
        Named(stationId) ==
            LET hit == {i \in DOMAIN Rows(frost.sources)[1] :
                          Rows(frost.sources)[1][i].id = stationId}
            IN  IF hit = {} THEN None
                ELSE Some(Rows(frost.sources)[1][CHOOSE i \in hit : \A j \in hit : j <= i].name)
        Point(obs) ==
            LET p == [time |-> obs.referenceTime, stationId |-> obs.sourceId]
            IN  IF Named(obs.sourceId) = None THEN p
                ELSE With(p, "stationName", Named(obs.sourceId)[1])
        observations == [i \in DOMAIN Rows(frost.observations)[1] |->
                            Point(Rows(frost.observations)[1][i])]
        output == [source |-> [provider |-> "MET Norway", product |-> "Frost API",
                               licenseUri |-> "https://creativecommons.org/licenses/by/4.0/",
                               creditLine |-> "Data from MET Norway Frost API (https://frost.met.no/)",
                               cached |-> FALSE],
                   location |-> input.location,
                   observations |-> observations]
    IN  IF ~byStation /\ ~frost.nearby.ok
        THEN [requests |-> nearby, env |-> ToolCatch(frost.nearby.error, unexpected)]
        ELSE IF ~byStation /\ (Rows(frost.nearby) = None \/ Rows(frost.nearby) = Some(<<>>))
        THEN [requests |-> nearby,
              env |-> buildErrorResponse(createWeatherError(
                          "OUT_OF_COVERAGE",
                          <<"No observation stations found within ",
                            ToString(input.location.radiusKm), "km of the specified location.">>,
                          [location |-> input.location]))]
        ELSE IF ~frost.observations.ok
        THEN [requests |-> Append(lookup, obsRequest),
              env |-> ToolCatch(frost.observations.error, unexpected)]
        ELSE IF Rows(frost.observations) = None
        THEN [requests |-> Append(lookup, obsRequest),
              env |-> ToolCatch(ShapeTypeError, unexpected)]
        ELSE IF ~frost.sources.ok
        THEN [requests |-> lookup \o <<obsRequest, metaRequest>>,
              env |-> ToolCatch(frost.sources.error, unexpected)]
        ELSE IF Rows(frost.sources) = None
        THEN [requests |-> lookup \o <<obsRequest, metaRequest>>,
              env |-> ToolCatch(ShapeTypeError, unexpected)]
        ELSE [requests |-> lookup \o <<obsRequest, metaRequest>>,
              env |-> buildToolResponse(output, <<"Recent observations">>)]

Blindern == [id |-> "SN18700", name |-> "OSLO - BLINDERN"]

\* how a request to Frost settles: a body with rows, without rows, without
\* the data property, or an error of the taxonomy
FrostAnswers(row) ==
    {[ok |-> TRUE, data |-> [data |-> <<row>>]],
     [ok |-> TRUE, data |-> [data |-> <<>>]],
     [ok |-> TRUE, data |-> [type |-> "SensorSystem"]],
     [ok |-> FALSE, error |-> handleNetworkError([message |-> <<"fetch failed">>], None)]}

ObservationInputs ==
    {Pending("handleRecentObservations",
             [input |-> [location |-> l, elements |-> <<"air_temperature", "wind_speed">>,
                         maxDays |-> 1],
              frost |-> [nearby |-> n, observations |-> o, sources |-> s]]) :
        l \in {[stationId |-> "SN18700"], [lat |-> 599, lon |-> 107, radiusKm |-> 10]},
        n \in FrostAnswers(Blindern),
        o \in FrostAnswers([sourceId |-> "SN18700", referenceTime |-> 1]),
        s \in FrostAnswers(Blindern)}

HandleRecentObservations ==
    Return("handleRecentObservations", handleRecentObservations(calc.in.input, calc.in.frost))

CalcInputs ==
    ResolveInputs \cup GateInputs \cup ResolveNameInputs \cup SampleInputs \cup AssessInputs
    \cup WindowInputs \cup RiskInputs \cup RateLimitInputs
    \cup StatusInputs
    \cup CacheInputs
    \cup ObservationInputs

InitCalc ==
    /\ InitWith(Envs({None}, {NoAuth}))
    /\ calc \in CalcInputs

NextCalc ==
    \/ ResolveTimeWindow
    \/ EnterGated
    \/ ResolveName
    \/ SampleWaypoints
    \/ AggregateTripRisk
    \/ IdentifyBestWindows
    \/ AssessRiskLevel
    \/ HandleHttpError
    \/ MapHttpStatusToErrorCode
    \/ ParseCacheHeaders
    \/ HandleRecentObservations

SpecCalc == InitCalc /\ [][NextCalc]_vars

(***************************************************************************)
(* Properties.                                                             *)
(***************************************************************************)
Started(c) == pc[c] # "idle"
Settled(c) == pc[c] = "done"

\* positions in the log of the entries of call c with the given message
EntriesOf(c, message) ==
    {i \in DOMAIN log : log[i].message = message /\ log[i].context.requestId = requestId[c]}

StartEntries(c) == EntriesOf(c, <<"Tool call started">>)
EndEntries(c) == EntriesOf(c, <<"Tool call completed">>)

\* call c has, in this order, n start entries and (once settled) n end
\* entries with a latency that is not negative
StartThenEnd(c, n) ==
    /\ Cardinality(StartEntries(c)) = n
    /\ Cardinality(EndEntries(c)) = IF Settled(c) THEN n ELSE 0
    /\ \A i \in StartEntries(c), j \in EndEntries(c) : i < j
    /\ \A j \in EndEntries(c) : log[j].context.latencyMs >= 0

FailedSubCalls(c) == {i \in DOMAIN subResults[c] : IsErrorEnvelope(subResults[c][i])}

\* C3: a composite never partially succeeds.  The route-risk aggregator
\* calls the marine tool for the sampled waypoints one at a time in route
\* order; at the first sub-call that yields an error envelope it returns that
\* envelope itself (same code, message, retryable flag and details), calls
\* the marine tool for no later waypoint and returns no assessments or
\* hotspots; with no failed sub-call it returns an assessment for every
\* sampled waypoint.  The activity scorer returns the forecast sub-call's
\* error envelope itself and no slots.
C3_NoPartialSuccess ==
    \A c \in Calls :
        (req[c] # None /\ req[c][1].tool \in {Trip, Activity}) =>
            /\ subCalls[c] = [i \in 1..Len(subCalls[c]) |-> i]
            /\ Len(subResults[c]) <= Len(subCalls[c])
            /\ ~Settled(c) => FailedSubCalls(c) = {}
            /\ (Settled(c) /\ FailedSubCalls(c) # {}) =>
                  /\ FailedSubCalls(c) = {Len(subCalls[c])}
                  /\ result[c] = Some(subResults[c][Len(subResults[c])])
                  /\ DOMAIN result[c][1].structuredContent = {"error"}
            /\ (Settled(c) /\ thrown[c] = None /\ FailedSubCalls(c) = {}) =>
                  /\ result[c] # None /\ ~IsErrorEnvelope(result[c][1])
                  /\ req[c][1].tool = Trip =>
                        Len(result[c][1].structuredContent.waypoint_assessments)
                            = Len(sampleWaypoints(req[c][1].args.route, MaxSamples))
                  /\ req[c][1].tool = Activity =>
                        Len(result[c][1].structuredContent.slots) = Len(subResults[c][1].structuredContent.hours)

\* a trip whose first waypoint was assessed, with a hotspot, and whose second
\* sub-call failed upstream
C3_Witness ==
    \E c \in Calls :
        /\ Settled(c) /\ req[c][1].tool = Trip
        /\ FailedSubCalls(c) = {2}
        /\ assessments[c] # <<>> /\ hotspots[c] # <<>>
        /\ subResults[c][2].structuredContent.error.code = "RATE_LIMITED"

\* the fetch of call c has settled, with this event and this outcome
FetchSettled(c) == settled[c] # None /\ "outcome" \in DOMAIN settled[c][1]
EventOf(c) == settled[c][1].event
OutcomeOf(c) == settled[c][1].outcome

\* error is a record of the taxonomy
IsTaxonomyRecord(error) ==
    /\ {"code", "message", "retryable"} \subseteq DOMAIN error
    /\ error.code \in ErrorCodes
    /\ error.retryable \in BOOLEAN

\* the event is a raw failure: a rejection of fetch or a body that is no JSON
IsRawFailure(ev) == ev.kind = "reject" \/ (ev.status = 200 /\ ev.body = None)

\* C4 as the specification states it: a typed error record made from an HTTP
\* status reaches the tool's error envelope unchanged, and every raw failure
\* (network error, abort exception, JSON parse failure), whatever properties
\* the exception has, is converted into a record of the taxonomy and never
\* passed through.
C4_Original ==
    \A c \in Calls :
        (FetchSettled(c) /\ ~OutcomeOf(c).ok) =>
            /\ IsTaxonomyRecord(OutcomeOf(c).error)
            /\ IsRawFailure(EventOf(c)) =>
                  /\ OutcomeOf(c).error.code \in {"MET_API_UNAVAILABLE", "INTERNAL_ERROR"}
                  /\ "name" \notin DOMAIN OutcomeOf(c).error
            /\ (~IsRawFailure(EventOf(c)) /\ Settled(c) /\ req[c][1].tool = Forecast) =>
                  result[c] = Some(buildErrorResponse(
                                  handleHttpError(EventOf(c).status, EventOf(c).statusText,
                                                  EventOf(c).headers, Some(fetchId[c]))))

\* the timeout value appears in the text
CarriesTimeout(text) == \E i \in DOMAIN text : text[i] = ToString(config.metnoTimeoutMs)

\* C5 as the specification states it: when the deadline of a fetch fires
\* while the request is in flight, the fetch fails with a record whose code
\* is MET_API_UNAVAILABLE, whose retryable flag is true and which carries
\* the timeout in milliseconds; never with another code or an untyped
\* exception.
C5_Original ==
    \A c \in Calls :
        (FetchSettled(c) /\ "aborted" \in DOMAIN EventOf(c)) =>
            /\ ~OutcomeOf(c).ok
            /\ IsTaxonomyRecord(OutcomeOf(c).error)
            /\ OutcomeOf(c).error.code = "MET_API_UNAVAILABLE"
            /\ OutcomeOf(c).error.retryable
            /\ \/ CarriesTimeout(OutcomeOf(c).error.message)
               \/ CarriesTimeout(OutcomeOf(c).error.details.networkError)

\* C6 as the specification states it: every error record in the structured
\* error field of a tool's error envelope has retryable = TRUE exactly when
\* its code is RATE_LIMITED or MET_API_UNAVAILABLE.
C6_Original ==
    \A c \in Calls :
        (/\ result[c] # None
         /\ IsErrorEnvelope(result[c][1])
         /\ "structuredContent" \in DOMAIN result[c][1]) =>
            LET error == result[c][1].structuredContent.error
            IN  /\ "retryable" \in DOMAIN error
                /\ error.retryable = (error.code \in {"RATE_LIMITED", "MET_API_UNAVAILABLE"})

\* the wrapper of call c rethrows in this step
Throws(c) == thrown[c] = None /\ thrown'[c] # None

\* the wrapper of call c settles in this step
Settles(c) == pc[c] # "done" /\ pc'[c] = "done"

\* the end entries written in this step for call c that report an
\* INTERNAL_ERROR
NewInternalErrorEntries(c) ==
    {j \in DOMAIN log' \ DOMAIN log :
        /\ log'[j].message = <<"Tool call completed">>
        /\ log'[j].context.requestId = requestId'[c]
        /\ log'[j].context.outcome = "error"
        /\ "errorCode" \in DOMAIN log'[j].context
        /\ log'[j].context.errorCode = "INTERNAL_ERROR"}

\* what the step in which the wrapper rethrows does to metrics and result
ThrowEffects(c) ==
    LET tool == req'[c][1].tool
    IN  /\ thrown'[c] = Some(ZodError)
        /\ result'[c] = None
        /\ toolCalls' = [toolCalls EXCEPT ![<<tool, "error">>] = @ + 1]
        /\ latencies'[tool].count = latencies[tool].count + 1
        /\ latencies'[tool].sum >= latencies[tool].sum
        /\ \A t \in DOMAIN latencies : t # tool => latencies'[t] = latencies[t]
        /\ cacheStatuses' = cacheStatuses

\* C7 as the specification states it: when a tool body throws, the wrapper
\* emits the end entry with outcome error and errorCode INTERNAL_ERROR,
\* adds one to the (toolName, error) counter, records one latency sample,
\* changes no cache-status counter and rethrows the same exception.
C7_Original ==
    [][\A c \in Calls :
          Throws(c) => ThrowEffects(c) /\ Cardinality(NewInternalErrorEntries(c)) = 1]_vars

\* C7: when a tool body throws, the wrapper adds one to the (toolName,
\* error) counter, records one latency sample, changes no cache-status
\* counter and rethrows the same exception; the end entry with outcome error
\* and errorCode INTERNAL_ERROR is written exactly once when the logger's
\* minimum level is debug or info, and not at all when it is warn or error.
C7_BodyThrows ==
    [][\A c \in Calls :
          Throws(c) =>
              /\ ThrowEffects(c)
              /\ Cardinality(NewInternalErrorEntries(c))
                     = IF minLevel \in {"debug", "info"} THEN 1 ELSE 0]_vars

\* a body threw under level debug and the wrapper rethrew the exception
C7_Witness ==
    \E c \in Calls :
        /\ minLevel = "debug"
        /\ Settled(c) /\ thrown[c] = Some(ZodError)
        /\ toolCalls[<<Forecast, "error">>] = 1
        /\ EndEntries(c) # {}

\* the envelope is a success whose structured result carries source.cached
HasSourceCached(envelope) ==
    /\ ~IsErrorEnvelope(envelope)
    /\ "source" \in DOMAIN envelope.structuredContent
    /\ "cached" \in DOMAIN envelope.structuredContent.source

\* C8: a wrapped call changes a cache-status counter only when it settles
\* with a success envelope whose structured result carries source.cached;
\* then exactly one counter grows by exactly one, HIT when cached is true
\* and MISS when it is false.  Calls that end in an error envelope or an
\* exception, successes without source.cached, and every other step leave
\* the cache-status counters unchanged.
C8_CacheStatus ==
    [][/\ \A c \in Calls :
             Settles(c) =>
                 IF result'[c] # None /\ HasSourceCached(result'[c][1])
                 THEN cacheStatuses' =
                          [cacheStatuses EXCEPT
                              ![IF result'[c][1].structuredContent.source.cached
                                THEN "HIT" ELSE "MISS"] = @ + 1]
                 ELSE cacheStatuses' = cacheStatuses
       /\ (\A c \in Calls : ~Settles(c)) => cacheStatuses' = cacheStatuses]_vars

\* a call answered from the cache was counted as a hit
C8_Witness ==
    \E c \in Calls :
        /\ Settled(c) /\ result[c] # None /\ HasSourceCached(result[c][1])
        /\ result[c][1].structuredContent.source.cached
        /\ cacheStatuses["HIT"] = 1 /\ cacheStatuses["MISS"] = 0

\* C9: inside a wrapped tool call, also after awaiting upstream I/O, the
\* context is bound and holds the requestId and toolName of that call, so
\* the request id read there is the call's own; interleaved calls have
\* different request ids and none observes another's; the caller of a call
\* that has settled observes no binding.
C9_RequestContext ==
    \A c \in Calls :
        /\ pc[c] \in {"fetching", "reading"} =>
              /\ getContext(store, c) # None
              /\ getContext(store, c)[1].requestId = requestId[c]
              /\ getContext(store, c)[1].toolName = req[c][1].tool
              /\ getRequestId(store, c) = Some(requestId[c])
        /\ \A i \in DOMAIN observed[c] : observed[c][i] = Some(requestId[c])
        /\ \A d \in Calls : (d # c /\ Started(c) /\ Started(d)) => requestId[c] # requestId[d]
        /\ Settled(c) => callerSaw[c] = Some(None)
        /\ getRequestId(store, Outside) = None

\* a call read its request id after I/O and settled while another call,
\* started in between, is still awaiting its body
C9_Witness ==
    \E c, d \in Calls :
        /\ c # d
        /\ Settled(c) /\ observed[c] # <<>>
        /\ pc[d] = "reading" /\ observed[d] # <<>>

\* the request carries the configured secret
CarriesSecret(r) ==
    /\ "weatherMcpApiKey" \in DOMAIN config
    /\ \E h \in DOMAIN r.headers : r.headers[h] = config.weatherMcpApiKey

\* C10 as the specification states it: with auth mode api-key and a secret
\* configured, a POST /mcp request that does not carry the secret is
\* rejected and never dispatched: no tool body runs and no upstream call is
\* made for it.
C10_Original ==
    \A c \in Calls :
        (config.weatherMcpAuthMode = "api-key" /\ req[c] # None /\ ~CarriesSecret(req[c][1])) =>
            /\ requestId[c] = 0
            /\ fetchId[c] = 0
            /\ pc[c] = "idle"

\* C11 as the specification states it: a call whose arguments violate a
\* bound of the tool's input schema ends in an error envelope with code
\* INVALID_INPUT and retryable FALSE, and no upstream request is made for it.
C11_Original ==
    \A c \in Calls :
        (Settled(c) /\ req[c][1].valid /\ ~SchemaAccepts(req[c][1])) =>
            /\ fetchId[c] = 0
            /\ result[c] # None
            /\ IsErrorEnvelope(result[c][1])
            /\ result[c][1].structuredContent.error.code = "INVALID_INPUT"
            /\ result[c][1].structuredContent.error.retryable = FALSE

\* C12: a time window with from or to and no preset resolves to an
\* interval only when both are present and from is strictly before to;
\* otherwise the resolution fails with INVALID_INPUT.
ExplicitRange(tw) ==
    /\ tw # None
    /\ "preset" \notin DOMAIN tw[1]
    /\ DOMAIN tw[1] \cap {"from", "to"} # {}

WellFormedRange(tw) ==
    /\ {"from", "to"} \subseteq DOMAIN tw[1]
    /\ tw[1].from < tw[1].to

C12_Original ==
    (/\ Applied("resolveTimeWindow")
     /\ ExplicitRange(calc.in.timeWindow)
     /\ ~WellFormedRange(calc.in.timeWindow)) =>
        /\ "code" \in DOMAIN calc.out[1]
        /\ calc.out[1].code = "INVALID_INPUT"

\* C13: the gated products test their fence, inclusive at every bound,
\* before any upstream request: a coordinate outside yields an
\* OUT_OF_COVERAGE envelope, not retryable, naming the coordinate, and the
\* handler returns without a request; a coordinate inside or on the
\* boundary passes the gate.
Between(x, lo, hi) == lo <= x /\ x <= hi

InFence(tool, location) ==
    CASE tool = Nowcast ->
             Between(location.lat, 550, 720) /\ Between(location.lon, 40, 320)
      [] tool = AirQuality ->
             Between(location.lat, 580, 710) /\ Between(location.lon, 40, 310)
      [] tool = Marine ->
             \/ Between(location.lat, 590, 605) /\ Between(location.lon, 100, 115)
             \/ Between(location.lat, 580, 630) /\ Between(location.lon, 45, 80)

IsCoverageRejection(step, location) ==
    /\ step.kind = "return"
    /\ IsErrorEnvelope(step.env)
    /\ step.env.structuredContent.error.code = "OUT_OF_COVERAGE"
    /\ step.env.structuredContent.error.retryable = FALSE
    /\ step.env.structuredContent.error.details.location = location

NoMatch(c) ==
    /\ req[c] # None
    /\ req[c][1].tool = Places
    /\ req[c][1].found = NothingFound
    /\ Settled(c)

C14_Original ==
    \A c \in Calls :
        NoMatch(c) =>
            /\ result[c] # None
            /\ ~IsErrorEnvelope(result[c][1])
            /\ "structuredContent" \in DOMAIN result[c][1]
            /\ result[c][1].structuredContent.matches = <<>>
            /\ toolCalls[<<Places, "success">>] = 1
            /\ toolCalls[<<Places, "error">>] = 0

\* C15: the matches the resolver returns are in non-increasing order of
\* confidence: no match has a strictly higher confidence than a match
\* listed before it.
NonIncreasing(matches) ==
    \A i, j \in DOMAIN matches : i < j => matches[i].confidence >= matches[j].confidence

C15_Original ==
    Applied("resolveName") => NonIncreasing(calc.out[1])

\* C16: of a route of N >= 2 waypoints at most min(5, N) are sampled, the
\* first is route[0] and the last route[N-1], the samples are in route
\* order, and for N > 5 the three interior samples lie at the route
\* positions nearest to the even stride i * (N - 1) / 4, pairwise distinct
\* and strictly between the first and the last.
PositionIn(route, waypoint) == CHOOSE k \in DOMAIN route : route[k] = waypoint

C16_Sampling ==
    Applied("sampleWaypoints") =>
        LET route == calc.in
            sampled == calc.out[1]
            N == Len(route)
            at == [j \in DOMAIN sampled |-> PositionIn(route, sampled[j]) - 1]
        IN  /\ Len(sampled) <= Least(5, N)
            /\ \A j \in DOMAIN sampled : \E k \in DOMAIN route : route[k] = sampled[j]
            /\ sampled[1] = route[1]
            /\ sampled[Len(sampled)] = route[N]
            /\ \A i, j \in DOMAIN sampled : i < j => at[i] < at[j]
            /\ N > 5 =>
                   /\ Len(sampled) = 5
                   /\ \A i \in 1..3 :
                          /\ at[i + 1] > 0 /\ at[i + 1] < N - 1
                          /\ 4 * at[i + 1] - i * (N - 1) <= 2
                          /\ i * (N - 1) - 4 * at[i + 1] <= 2

\* a route of more than five waypoints has been sampled down to five
C16_Witness ==
    /\ Applied("sampleWaypoints")
    /\ Len(calc.in) > 5
    /\ Len(calc.out[1]) = 5
    /\ calc.out[1][2] # calc.in[2]

\* C17: the verdict of a trip is extreme if a waypoint's max_risk is
\* extreme, otherwise dangerous if at least two waypoints have max_risk of
\* high or more, otherwise caution if a waypoint's max_risk is high or
\* moderate, otherwise safe; a waypoint's max_risk is the highest risk
\* among its hours and its high_risk_hours counts its hours of high or
\* more.
RiskOrder == <<"low", "moderate", "high", "extreme">>

RankOf(level) == CHOOSE k \in DOMAIN RiskOrder : RiskOrder[k] = level

AtLeastHigh(level) == RankOf(level) >= RankOf("high")

GoodRun(slots, a, b) ==
    /\ a <= b
    /\ \A i \in a..b : slots[i].score = "good"
    /\ a = 1 \/ slots[a - 1].score # "good"
    /\ b = Len(slots) \/ slots[b + 1].score # "good"

C18_BestWindows ==
    Applied("identifyBestWindows") =>
        LET slots == calc.in
            windows == calc.out[1]
        IN  /\ \A k \in DOMAIN windows :
                   /\ windows[k].from \in DOMAIN slots /\ windows[k].to \in DOMAIN slots
                   /\ GoodRun(slots, windows[k].from, windows[k].to)
                   /\ windows[k].duration_hours = windows[k].to - windows[k].from + 1
                   /\ windows[k].duration_hours >= 2
            /\ \A k, l \in DOMAIN windows : k < l => windows[k].to < windows[l].from
            /\ \A a, b \in DOMAIN slots :
                   (GoodRun(slots, a, b) /\ b - a + 1 >= 2) =>
                       \E k \in DOMAIN windows : windows[k].from = a /\ windows[k].to = b

\* a series with two runs, the second reaching the end of the series
C18_Witness ==
    /\ Applied("identifyBestWindows")
    /\ Len(calc.in) = 5
    /\ calc.in[3].score # "good"
    /\ Len(calc.out[1]) = 2
    /\ calc.out[1][2].to = 5

\* C19: a marine point is high if its wave height or its current speed
\* reaches the vessel's high bound, otherwise moderate if either reaches
\* the moderate bound, otherwise low, with the bounds of the table kayak
\* 0.5/1.0 and 0.8/1.5, small sailboat 1.0/2.0 and 1.5/3.0, motorboat
\* 1.5/2.5 and 2.0/4.0, ship 3.5/5.0 and 5.0/7.0 (moderate and high, wave
\* in m / current in m/s); a value equal to a bound reaches it.
ModerateBound(vesselType) ==
    CASE vesselType = "kayak" -> <<5, 10>>
      [] vesselType = "small_sailboat" -> <<10, 20>>
      [] vesselType = "motorboat" -> <<15, 25>>
      [] vesselType = "ship" -> <<35, 50>>

HighBound(vesselType) ==
    CASE vesselType = "kayak" -> <<8, 15>>
      [] vesselType = "small_sailboat" -> <<15, 30>>
      [] vesselType = "motorboat" -> <<20, 40>>
      [] vesselType = "ship" -> <<50, 70>>

Reaches(in, bound) == in.waveHeight >= bound[1] \/ in.waterSpeed >= bound[2]

C19_RiskLevel ==
    Applied("assessRiskLevel") =>
        calc.out[1] = IF Reaches(calc.in, HighBound(calc.in.vesselType)) THEN "high"
                      ELSE IF Reaches(calc.in, ModerateBound(calc.in.vesselType)) THEN "moderate"
                      ELSE "low"

\* a kayak in waves of exactly 0.8 m and no current is at high risk
C19_Witness ==
    /\ Applied("assessRiskLevel")
    /\ calc.in = [waveHeight |-> 8, waterSpeed |-> 0, vesselType |-> "kayak"]
    /\ calc.out[1] = "high"

\* C20: for an upstream 429 or 503 whose Retry-After header is present
\* and numeric with value N, the error record carries retryAfterSeconds =
\* N and the envelope's text is the message followed by " Retry after N
\* seconds."; when the header is absent or not numeric, the record has no
\* retryAfterSeconds and the text is the message alone; either way the
\* structured field holds the record and isError is set.
IsNumeric(str) == str # <<>> /\ \A i \in DOMAIN str : IsDigit(str[i])

C20_Original ==
    Applied("handleHttpError") =>
        LET headers == calc.in.headers
            error == calc.out[1].error
            envelope == calc.out[1].envelope
        IN  /\ envelope.structuredContent.error = error
            /\ IsErrorEnvelope(envelope)
            /\ IF "Retry-After" \in DOMAIN headers /\ IsNumeric(headers["Retry-After"])
               THEN LET N == DigitsValue(headers["Retry-After"], 0)
                    IN  /\ "retryAfterSeconds" \in DOMAIN error.details
                        /\ error.details.retryAfterSeconds = N
                        /\ envelope.content[1].text =
                               error.message \o <<" Retry after ", ToString(N), " seconds.">>
               ELSE /\ "retryAfterSeconds" \notin DOMAIN error.details
                    /\ envelope.content[1].text = error.message

\* C21: for every HTTP status code (100 to 599) the map returns
\* INVALID_INPUT for 400 and 404, INTERNAL_ERROR for 403, RATE_LIMITED for
\* 429 and 503, MET_API_UNAVAILABLE for every other 5xx status, and
\* INTERNAL_ERROR for every other status.
C21_StatusMap ==
    Applied("mapHttpStatusToErrorCode") =>
        LET status == calc.in
        IN  calc.out[1] =
                CASE status \in {400, 404} -> "INVALID_INPUT"
                  [] status = 403 -> "INTERNAL_ERROR"
                  [] status \in {429, 503} -> "RATE_LIMITED"
                  [] status \in (500..599) \ {503} -> "MET_API_UNAVAILABLE"
                  [] OTHER -> "INTERNAL_ERROR"

\* 503 has been mapped, to RATE_LIMITED
C21_Witness ==
    /\ Applied("mapHttpStatusToErrorCode")
    /\ calc.in = 503
    /\ calc.out[1] = "RATE_LIMITED"

\* the status part of C22: the X-Proxy-Cache value is read without regard
\* to case; HIT and EXPIRED give cached = TRUE with that status, MISS and
\* BYPASS cached = FALSE with that status, a missing or other value cached
\* = FALSE without status; none of this depends on the Age header.
SameLetters(str, upper, lower) ==
    /\ Len(str) = Len(upper)
    /\ \A i \in DOMAIN str : str[i] \in {upper[i], lower[i]}

StatusNamed(headers) ==
    LET Known == {<<<<"H", "I", "T">>, <<"h", "i", "t">>>>,
                  <<<<"M", "I", "S", "S">>, <<"m", "i", "s", "s">>>>,
                  <<<<"E", "X", "P", "I", "R", "E", "D">>, <<"e", "x", "p", "i", "r", "e", "d">>>>,
                  <<<<"B", "Y", "P", "A", "S", "S">>, <<"b", "y", "p", "a", "s", "s">>>>}
        hit == IF "X-Proxy-Cache" \in DOMAIN headers
               THEN {k \in Known : SameLetters(headers["X-Proxy-Cache"], k[1], k[2])}
               ELSE {}
    IN  IF hit = {} THEN None ELSE Some((CHOOSE k \in hit : TRUE)[1])

CacheStatusPart(headers, cache) ==
    LET named == StatusNamed(headers)
    IN  IF named = None
        THEN ~cache.cached /\ "status" \notin DOMAIN cache
        ELSE /\ "status" \in DOMAIN cache
             /\ cache.status = named[1]
             /\ cache.cached = (named[1] \in {<<"H", "I", "T">>,
                                               <<"E", "X", "P", "I", "R", "E", "D">>})

\* a non-negative integer in decimal digits, with or without a sign
Unsigned(str) == IF str # <<>> /\ Head(str) \in {"+", "-"} THEN Tail(str) ELSE str

NonNegativeInteger(str) ==
    /\ IsNumeric(Unsigned(str))
    /\ (str[1] = "-") => DigitsValue(Unsigned(str), 0) = 0

\* C22 as the specification states it: the status part, and ageSeconds is
\* defined only when the Age header is a non-negative integer, and is then
\* that integer.
C22_Original ==
    Applied("parseCacheHeaders") =>
        /\ CacheStatusPart(calc.in, calc.out[1])
        /\ IF "Age" \in DOMAIN calc.in /\ NonNegativeInteger(calc.in["Age"])
           THEN /\ "ageSeconds" \in DOMAIN calc.out[1]
                /\ calc.out[1].ageSeconds = DigitsValue(Unsigned(calc.in["Age"]), 0)
           ELSE "ageSeconds" \notin DOMAIN calc.out[1]

\* C22: the status part, and ageSeconds is defined exactly when the Age
\* header, after leading blanks and an optional sign, begins with digits
\* whose signed value is not negative; it is then the value of those
\* leading digits, whatever follows them ("120.5" gives 120).
LeadingDigits(str) ==
    LET s == TrimLeft(str)
    IN  DigitPrefix(IF s # <<>> /\ Head(s) \in {"+", "-"} THEN Tail(s) ELSE s)

NegativeSign(str) == TrimLeft(str) # <<>> /\ Head(TrimLeft(str)) = "-"

C22_CacheHeaders ==
    Applied("parseCacheHeaders") =>
        /\ CacheStatusPart(calc.in, calc.out[1])
        /\ IF /\ "Age" \in DOMAIN calc.in
              /\ LeadingDigits(calc.in["Age"]) # <<>>
              /\ NegativeSign(calc.in["Age"]) => DigitsValue(LeadingDigits(calc.in["Age"]), 0) = 0
           THEN /\ "ageSeconds" \in DOMAIN calc.out[1]
                /\ calc.out[1].ageSeconds = DigitsValue(LeadingDigits(calc.in["Age"]), 0)
           ELSE "ageSeconds" \notin DOMAIN calc.out[1]

\* a lower-case hit with an Age of 120.5 has been parsed
C22_Witness ==
    /\ Applied("parseCacheHeaders")
    /\ DOMAIN calc.in = {"X-Proxy-Cache", "Age"}
    /\ calc.in["X-Proxy-Cache"] = <<"h", "i", "t">>
    /\ calc.in["Age"] = <<"1", "2", "0", ".", "5">>
    /\ calc.out[1] = [cached |-> TRUE, status |-> <<"H", "I", "T">>, ageSeconds |-> 120]

\* C23: once the process has exited after a termination signal on the stdio
\* transport, every tool call that had started has run to completion (no
\* call is left waiting for its upstream answer or its body).
C23_Original ==
    proc.state = "exited" => \A c \in Calls : pc[c] \in {"idle", "done"}

\* the value of a sample in an export, 0 when the export has no such line
SampleOf(samples, name, labels) ==
    LET hit == {s \in samples : s[1] = name /\ s[2] = labels}
    IN  IF hit = {} THEN 0 ELSE (CHOOSE s \in hit : TRUE)[3]

\* the end entries of a tool (with the given outcomes) among some entries
EndEntriesIn(entries, toolName, outcomes) ==
    {i \in DOMAIN entries :
        /\ entries[i].message = <<"Tool call completed">>
        /\ entries[i].context.toolName = toolName
        /\ entries[i].context.outcome \in outcomes}

ToolNames == {Forecast, Marine, Activity, Trip, Places}

Completed(toolName) == {c \in Calls : pc[c] = "done" /\ req[c][1].tool = toolName}

\* C24: a call's metric updates happen once its body has completed (the
\* counters of a tool never exceed its completed calls), and a reader that
\* has seen a call's end entry in the log and then reads /metrics finds the
\* call's (tool, outcome) increment and its latency sample in the export,
\* whatever other calls did in between.
C24_EndThenMetrics ==
    /\ \A t \in ToolNames :
          /\ toolCalls[<<t, "success">>] + toolCalls[<<t, "error">>] <= Cardinality(Completed(t))
          /\ latencies[t].count <= Cardinality(Completed(t))
    /\ Applied("exportPrometheus") =>
          \A t \in ToolNames :
              /\ \A o \in {"success", "error"} :
                    Cardinality(EndEntriesIn(calc.in, t, {o}))
                        <= SampleOf(calc.out[1], "mcp_tool_calls_total", <<t, o>>)
              /\ Cardinality(EndEntriesIn(calc.in, t, {"success", "error"}))
                    <= SampleOf(calc.out[1], "mcp_tool_latency_ms_count", <<t>>)

\* a reader saw the end entries of a successful and of a failed forecast
\* call and then read both counters from /metrics
C24_Witness ==
    /\ Applied("exportPrometheus")
    /\ EndEntriesIn(calc.in, Forecast, {"success"}) # {}
    /\ EndEntriesIn(calc.in, Forecast, {"error"}) # {}
    /\ SampleOf(calc.out[1], "mcp_tool_calls_total", <<Forecast, "success">>) = 1
    /\ SampleOf(calc.out[1], "mcp_tool_calls_total", <<Forecast, "error">>) = 1
    /\ SampleOf(calc.out[1], "mcp_tool_latency_ms_count", <<Forecast>>) = 2

\* C25: in every state and for every tool name, the success counter plus
\* the error counter equals the latency sample count and equals the number
\* of completed calls to the tool (one increment and one sample per
\* completed call, whether it returned a success envelope, an error envelope
\* or threw), and no step decreases a counter or a sample count.
C25_Counters ==
    /\ [](\A t \in ToolNames :
            /\ toolCalls[<<t, "success">>] + toolCalls[<<t, "error">>] = latencies[t].count
            /\ latencies[t].count = Cardinality(Completed(t)))
    /\ [][\A t \in ToolNames :
            /\ toolCalls'[<<t, "success">>] >= toolCalls[<<t, "success">>]
            /\ toolCalls'[<<t, "error">>] >= toolCalls[<<t, "error">>]
            /\ latencies'[t].count >= latencies[t].count]_vars

\* two forecast calls completed, one with a success envelope and one by
\* throwing: counted as one success, one error and two samples
C25_Witness ==
    /\ \E c, d \in Completed(Forecast) :
          /\ thrown[c] # None
          /\ result[d] # None
          /\ ~IsErrorEnvelope(result[d][1])
    /\ toolCalls[<<Forecast, "success">>] = 1
    /\ toolCalls[<<Forecast, "error">>] = 1
    /\ latencies[Forecast].count = 2

\* C26: every marine sub-call a composite has made and got back passed
\* through the tool wrapper: it counted in the marine tool's (toolName,
\* outcome) counters and latency samples, and, at a log level that writes
\* info entries, left a start and an end entry under the marine tool's name.
C26_Original ==
    \A c \in Calls :
        (Started(c) /\ req[c][1].tool = Trip) =>
            /\ toolCalls[<<Marine, "success">>] + toolCalls[<<Marine, "error">>]
                  >= Len(subResults[c])
            /\ latencies[Marine].count >= Len(subResults[c])
            /\ shouldLog(minLevel, "info") =>
                  /\ Cardinality({i \in DOMAIN log :
                                    /\ log[i].message = <<"Tool call started">>
                                    /\ log[i].context.toolName = Marine})
                        >= Len(subResults[c])
                  /\ Cardinality(EndEntriesIn(log, Marine, {"success", "error"}))
                        >= Len(subResults[c])

\* C27 for recent observations: a call by station id issues exactly one
\* upstream request; a call by coordinates issues the nearby-stations lookup
\* and then, when that found a station, the observations request and no
\* other, and returns OUT_OF_COVERAGE after the lookup when it found none;
\* once a request has failed the call issues no further request.
C27_Original ==
    Applied("handleRecentObservations") =>
        LET input == calc.in.input
            frost == calc.in.frost
            requests == calc.out[1].requests
            env == calc.out[1].env
            found == /\ frost.nearby.ok
                     /\ "data" \in DOMAIN frost.nearby.data
                     /\ frost.nearby.data.data # <<>>
        IN  IF "stationId" \in DOMAIN input.location
            THEN Len(requests) = 1
            ELSE /\ Len(requests) = (IF found THEN 2 ELSE 1)
                 /\ (frost.nearby.ok /\ ~found) =>
                        /\ IsErrorEnvelope(env)
                        /\ env.structuredContent.error.code = "OUT_OF_COVERAGE"

\* C28: a call whose HTTP client disconnected while its upstream request
\* was in flight is ended by the cancellation and not by the upstream's
\* answer: when it completes, it completes with an error envelope that the
\* wrapper counts as an error outcome.
C28_Original ==
    [][\A c \in Calls :
          (session[c] = "closed" /\ pc[c] \in {"fetching", "reading"} /\ pc'[c] = "done") =>
              /\ result'[c] # None
              /\ IsErrorEnvelope(result'[c][1])
              /\ toolCalls'[<<req[c][1].tool, "error">>] = toolCalls[<<req[c][1].tool, "error">>] + 1]_vars

\* C29: the deadline of a fetch stays armed for the whole call: while a call
\* waits for the upstream, for its answer or for the body of its answer, the
\* timer that aborts the request is armed, so the wait ends at the deadline.
C29_Original ==
    \A c \in Calls : pc[c] \in {"fetching", "reading"} => timer[c] = "armed"

\* the success envelope of a completed call to the tool, if there is one
Succeeded(c, tool) ==
    /\ Settled(c)
    /\ req[c][1].tool = tool
    /\ result[c] # None
    /\ ~IsErrorEnvelope(result[c][1])

\* C30: for no vessel type, wave height and current speed is the assessed
\* level extreme; no hour of a marine result carries the risk level extreme,
\* and in every route-risk result no waypoint has max_risk extreme, no
\* hotspot has the risk level extreme and the overall risk is not extreme.
C30_NeverExtreme ==
    /\ \A v \in VesselTypes, w \in WaveHeights, s \in WaterSpeeds :
          assessRiskLevel(w, s, v) \in {"low", "moderate", "high"}
    /\ \A c \in Calls :
        /\ Succeeded(c, Marine) =>
              \A i \in DOMAIN result[c][1].structuredContent.hours :
                  result[c][1].structuredContent.hours[i].risk_level # "extreme"
        /\ Succeeded(c, Trip) =>
              LET out == result[c][1].structuredContent
              IN  /\ out.overall_risk # "extreme"
                  /\ \A i \in DOMAIN out.waypoint_assessments :
                        out.waypoint_assessments[i].max_risk # "extreme"
                  /\ \A i \in DOMAIN out.hotspots : out.hotspots[i].risk_level # "extreme"
        /\ \A i \in DOMAIN subResults[c] :
              (req[c][1].tool = Trip /\ ~IsErrorEnvelope(subResults[c][i])
               /\ "hours" \in DOMAIN subResults[c][i].structuredContent) =>
                  \A j \in DOMAIN subResults[c][i].structuredContent.hours :
                      subResults[c][i].structuredContent.hours[j].risk_level # "extreme"

\* a route-risk result over waves above the kayak's high threshold: both
\* waypoints high, hotspots reported, the trip dangerous
C30_Witness ==
    \E c \in Calls :
        /\ Succeeded(c, Trip)
        /\ result[c][1].structuredContent.overall_risk = "dangerous"
        /\ result[c][1].structuredContent.hotspots # <<>>
        /\ \A i \in DOMAIN result[c][1].structuredContent.waypoint_assessments :
              result[c][1].structuredContent.waypoint_assessments[i].max_risk = "high"
        /\ \E i \in DOMAIN result[c][1].structuredContent.hotspots :
              result[c][1].structuredContent.hotspots[i].wave_height > RISK_THRESHOLDS("kayak").high.wave

====
